---- MODULE Spec2Model ----
(***************************************************************************)
(* A model of caproto's channel-data layer (caproto/_data.py): the alarm   *)
(* record ChannelAlarm, the numeric channel (ChannelData + ChannelNumeric),*)
(* its write pipeline, and the subscription fan-out (subscribe / publish). *)
(*                                                                         *)
(* Coroutines are modelled as tasks.  A task runs atomically from one      *)
(* suspension point to the next; the suspension points kept are the        *)
(* `await queue.put(...)` of subscribe and publish.  The update handed to  *)
(* put is built before the suspension and enqueued when the task resumes.  *)
(***************************************************************************)
EXTENDS Integers, Sequences, FiniteSets, TLC

\* ------------------------------------------------------------------ bounds
\* Operations started in one behaviour; time.time() is the operation count.
MaxOps == 3
\* max_length of the array channel.
MaxLen == 2
\* Writes started in one behaviour of the specification with suspending
\* hooks.
MaxWrites == 2
\* Operations started in one behaviour of the specification with sync
\* filters.
MaxSyncOps == 4
\* Callbacks submitted to the callback executor in one behaviour.
MaxCallbacks == 3

\* ------------------------------------------------------------ the universe
Channels == {"A", "B"}
Alarms == {"a1", "a2"}
Queues == {"q1", "q2"}
Tasks == {1, 2}

\* AlarmSeverity (caproto/_dbr.py): NO_ALARM < MINOR_ALARM < MAJOR_ALARM < INVALID_ALARM
NO_ALARM_SEV == 0
MINOR_ALARM == 1
MAJOR_ALARM == 2
INVALID_ALARM == 3
Severities == NO_ALARM_SEV..INVALID_ALARM

\* Python's None for an optional status / severity / flag / string argument.
NoneStr == "None"
NoneInt == -1

\* SubscriptionType bits, as a set of names; flags |= X is set union.
DBE_LOG == "DBE_LOG"
DBE_VALUE == "DBE_VALUE"
DBE_ALARM == "DBE_ALARM"
DBE_PROPERTY == "DBE_PROPERTY"

\* ------------------------------------------------------------ Python values
\* A Python value handed to write(): a scalar (arr = FALSE, one element) or
\* a list (arr = TRUE).
Sc(n) == [arr |-> FALSE, e |-> <<n>>]
Arr(s) == [arr |-> TRUE, e |-> s]

\* ChannelData.calculate_length for a numeric value.
calculate_length(value) == IF value.arr THEN Len(value.e) ELSE 1

\* --------------------------------------------------------------- the alarm
\* ChannelAlarm.__init__ with its default arguments.
NewAlarm ==
    [status |-> "NO_ALARM", severity |-> NO_ALARM_SEV,
     must_acknowledge_transient |-> TRUE,
     severity_to_acknowledge |-> 0,
     alarm_string |-> "",
     channels |-> {}]

\* The keyword arguments of ChannelAlarm.write; NoneStr / NoneInt = not given.
\* must_acknowledge_transient is "None", "True" or "False".
NoArgs ==
    [status |-> NoneStr, severity |-> NoneInt,
     must_acknowledge_transient |-> NoneStr,
     severity_to_acknowledge |-> NoneInt,
     alarm_string |-> NoneStr]

\* The severity branch of ChannelAlarm.write with the latch dropped.
SeverityStepNoLatch(al, p) ==
    IF p.severity # NoneInt
    THEN [al EXCEPT !.severity = p.severity,
                    !.severity_to_acknowledge = p.severity]
    ELSE al

\* The severity branch with its comparison reversed.
SeverityStepReversed(al, p) ==
    IF p.severity # NoneInt
    THEN LET a1 == [al EXCEPT !.severity = p.severity]
         IN IF (~a1.must_acknowledge_transient)
                \/ a1.severity_to_acknowledge > a1.severity
            THEN [a1 EXCEPT !.severity_to_acknowledge = a1.severity]
            ELSE a1
    ELSE al

\* ChannelAlarm.write, `if severity is not None:` branch.
SeverityStep(al, p) ==
    IF p.severity # NoneInt
    THEN LET a1 == [al EXCEPT !.severity = p.severity]
         IN IF (~a1.must_acknowledge_transient)
                \/ a1.severity_to_acknowledge < a1.severity
            THEN [a1 EXCEPT !.severity_to_acknowledge = a1.severity]
            ELSE a1
    ELSE al

\* ChannelAlarm.write, `if status is not None:` branch.
StatusStep(al, p) ==
    IF p.status # NoneStr THEN [al EXCEPT !.status = p.status] ELSE al

\* ChannelAlarm.write, `if must_acknowledge_transient is not None:` branch.
TransientStep(al, p) ==
    IF p.must_acknowledge_transient # NoneStr
    THEN LET mat == (p.must_acknowledge_transient = "True")
             a1 == [al EXCEPT !.must_acknowledge_transient = mat]
         IN IF (~mat) /\ a1.severity_to_acknowledge > a1.severity
            THEN [a1 EXCEPT !.severity_to_acknowledge = a1.severity]
            ELSE a1
    ELSE al

\* The acknowledgement branch clearing on every request.
AckStepAlways(al, p) ==
    IF p.severity_to_acknowledge # NoneInt
    THEN [al EXCEPT !.severity_to_acknowledge = 0]
    ELSE al

\* The acknowledgement branch clearing only once the alarm is over.
AckStepWhenQuiet(al, p) ==
    IF p.severity_to_acknowledge # NoneInt
       /\ p.severity_to_acknowledge >= al.severity
       /\ al.severity = NO_ALARM_SEV
    THEN [al EXCEPT !.severity_to_acknowledge = 0]
    ELSE al

\* ChannelAlarm.write, `if severity_to_acknowledge is not None:` branch.
AckStep(al, p) ==
    IF p.severity_to_acknowledge # NoneInt
       /\ p.severity_to_acknowledge >= al.severity
    THEN [al EXCEPT !.severity_to_acknowledge = 0]
    ELSE al

\* ChannelAlarm.write, `if alarm_string is not None:` branch.
StringStep(al, p) ==
    IF p.alarm_string # NoneStr THEN [al EXCEPT !.alarm_string = p.alarm_string]
    ELSE al

\* ChannelAlarm.write: the data it leaves, the branches in the order of the code.
AlarmWrite(al, p) ==
    StringStep(AckStep(TransientStep(SeverityStep(StatusStep(al, p), p), p), p), p)

\* ChannelAlarm.write: the flags it publishes with.
AlarmWriteFlags(al, p, flags) ==
    LET a3 == TransientStep(SeverityStep(StatusStep(al, p), p), p)
    IN flags
       \cup (IF p.status # NoneStr THEN {DBE_VALUE} ELSE {})
       \cup (IF p.severity # NoneInt THEN {DBE_ALARM} ELSE {})
       \cup (IF p.must_acknowledge_transient # NoneStr THEN {DBE_ALARM} ELSE {})
       \cup (IF p.severity_to_acknowledge # NoneInt
                /\ p.severity_to_acknowledge >= a3.severity
             THEN {DBE_ALARM} ELSE {})
       \cup (IF p.alarm_string # NoneStr THEN {DBE_ALARM} ELSE {})

\* An acknowledgement request of the call p takes effect (the comparison is
\* made after the call's own severity and transient updates).
EffectiveAck(al, p) ==
    LET a3 == TransientStep(SeverityStep(StatusStep(al, p), p), p)
    IN p.severity_to_acknowledge # NoneInt
       /\ p.severity_to_acknowledge >= a3.severity

\* ------------------------------------------------------------- the channel
\* The limits of a numeric channel: lower/upper control, alarm and warning.
\* S1Limits is the configuration of the scenario "numeric write + monitor".
S1Limits ==
    [lower_ctrl_limit |-> -15, upper_ctrl_limit |-> 15,
     lower_alarm_limit |-> -10, upper_alarm_limit |-> 10,
     lower_warning_limit |-> -5, upper_warning_limit |-> 5]

\* preprocess_value without the check of the length against max_length.
preprocess_no_length_check(max_length, value) ==
    IF max_length = 1
    THEN IF value.arr
         THEN IF Len(value.e) > 0
              THEN [exc |-> "none", value |-> Sc(value.e[1])]
              ELSE [exc |-> "CaprotoValueError", value |-> value]
         ELSE [exc |-> "none", value |-> value]
    ELSE IF ~value.arr
         THEN [exc |-> "none", value |-> Arr(value.e)]
         ELSE [exc |-> "none", value |-> value]

\* preprocess_value without the unwrapping of a one-element list.
preprocess_no_unwrap(max_length, value) ==
    IF value.arr /\ Len(value.e) > max_length
    THEN [exc |-> "CaprotoValueError", value |-> value]
    ELSE IF max_length # 1 /\ ~value.arr
         THEN [exc |-> "none", value |-> Arr(value.e)]
         ELSE [exc |-> "none", value |-> value]

\* ChannelData.preprocess_value: exc is the exception raised ("none" = returns).
preprocess_value(max_length, value) ==
    IF value.arr /\ Len(value.e) > max_length
    THEN [exc |-> "CaprotoValueError", value |-> value]
    ELSE IF max_length = 1
         THEN IF value.arr
              THEN IF Len(value.e) > 0
                   THEN [exc |-> "none", value |-> Sc(value.e[1])]
                   ELSE [exc |-> "CaprotoValueError", value |-> value]
              ELSE [exc |-> "none", value |-> value]
         ELSE IF ~value.arr
              THEN [exc |-> "none", value |-> Arr(value.e)]
              ELSE [exc |-> "none", value |-> value]

\* A limit checker whose comparisons are strict.
limit_checker_strict(val, lo_limit, hi_limit, lo_status, hi_status, lo_sev, hi_sev) ==
    IF lo_limit # hi_limit /\ val < lo_limit THEN <<lo_status, lo_sev>>
    ELSE IF lo_limit # hi_limit /\ hi_limit < val THEN <<hi_status, hi_sev>>
    ELSE <<"NO_ALARM", NO_ALARM_SEV>>

\* limit_checker inside ChannelNumeric.verify_value (no field_inst: the
\* default severities apply).
limit_checker(val, lo_limit, hi_limit, lo_status, hi_status, lo_sev, hi_sev) ==
    IF lo_limit # hi_limit /\ val <= lo_limit THEN <<lo_status, lo_sev>>
    ELSE IF lo_limit # hi_limit /\ hi_limit <= val THEN <<hi_status, hi_sev>>
    ELSE <<"NO_ALARM", NO_ALARM_SEV>>

\* The (status, severity) ChannelNumeric.verify_value stages for val.
LimitAlarm(lim, val) ==
    LET a == limit_checker(val, lim.lower_alarm_limit, lim.upper_alarm_limit,
                           "LOLO", "HIHI", MAJOR_ALARM, MAJOR_ALARM)
    IN IF a[1] = "NO_ALARM"
       THEN limit_checker(val, lim.lower_warning_limit, lim.upper_warning_limit,
                          "LOW", "HIGH", MINOR_ALARM, MINOR_ALARM)
       ELSE a

\* verify_value with the control-limit check left out.
verify_value_no_ctrl(lim, data) ==
    IF Len(data.e) # 1
    THEN [exc |-> "none", staged |-> FALSE, status |-> NoneStr, severity |-> NoneInt]
    ELSE LET a == LimitAlarm(lim, data.e[1])
         IN [exc |-> "none", staged |-> TRUE, status |-> a[1], severity |-> a[2]]

\* A verify_value that leaves every list unchecked, one of a single element
\* too.
verify_value_lists_bypass(lim, data) ==
    IF data.arr \/ Len(data.e) # 1
    THEN [exc |-> "none", staged |-> FALSE, status |-> NoneStr, severity |-> NoneInt]
    ELSE LET val == data.e[1]
         IN IF lim.lower_ctrl_limit # lim.upper_ctrl_limit
               /\ ~(lim.lower_ctrl_limit <= val /\ val <= lim.upper_ctrl_limit)
            THEN [exc |-> "CannotExceedLimits", staged |-> FALSE,
                  status |-> NoneStr, severity |-> NoneInt]
            ELSE LET a == LimitAlarm(lim, val)
                 IN [exc |-> "none", staged |-> TRUE,
                     status |-> a[1], severity |-> a[2]]

\* ChannelNumeric.verify_value: the exception it raises, and the status and
\* severity it stages on the channel (staged = FALSE: an array, no limits).
\* It returns data itself.
verify_value(lim, data) ==
    IF Len(data.e) # 1
    THEN [exc |-> "none", staged |-> FALSE, status |-> NoneStr, severity |-> NoneInt]
    ELSE LET val == data.e[1]
         IN IF lim.lower_ctrl_limit # lim.upper_ctrl_limit
               /\ ~(lim.lower_ctrl_limit <= val /\ val <= lim.upper_ctrl_limit)
            THEN [exc |-> "CannotExceedLimits", staged |-> FALSE,
                  status |-> NoneStr, severity |-> NoneInt]
            ELSE LET a == LimitAlarm(lim, val)
                 IN [exc |-> "none", staged |-> TRUE,
                     status |-> a[1], severity |-> a[2]]

\* The state variables of the server that sync filters name, and the modes
\* of a sync filter.
States == {"S", "R"}
Modes == {"before", "first", "while", "last", "after", "unless"}
\* No snapshot under a mode of _snapshots[state].
NoSnap == [k |-> "absent"]
\* _snapshots[state][mode] = self: the channel itself.
Live == [k |-> "live"]

\* ChannelData.__init__ + ChannelNumeric.__init__: a channel holding `raw`,
\* attached to alarm a, timestamp 0.  _status/_severity are the staged alarm.
NewChannel(max_length, raw, lim, a) ==
    [value |-> preprocess_value(max_length, raw).value,
     timestamp |-> 0,
     max_length |-> max_length,
     lim |-> lim,
     alarm |-> a,
     _status |-> NoneStr,
     _severity |-> NoneInt,
     _snapshots |-> [st \in States |-> [m \in Modes |-> NoSnap]],
     _fill_at_next_write |-> <<>>]

\* ChannelData._collect_alarm: the alarm metadata handed to write_metadata
\* (both branches test the staged status against the alarm's status).
collect_alarm(ch, al) ==
    [status |-> IF ch._status # NoneStr /\ ch._status # al.status
                THEN ch._status ELSE NoneStr,
     severity |-> IF ch._severity # NoneInt /\ ch._status # al.status
                  THEN ch._severity ELSE NoneInt]

\* ChannelData._clear_cached_alarms
clear_cached_alarms(ch) == [ch EXCEPT !._status = NoneStr, !._severity = NoneInt]

\* The status and severity properties of a channel with alarm record al: the
\* staged value when there is one, else the alarm's.
status(ch, al) == IF ch._status = NoneStr THEN al.status ELSE ch._status
severity(ch, al) == IF ch._severity = NoneInt THEN al.severity ELSE ch._severity

\* ------------------------------------------------------ wire types, reading
\* Wire types subscribed to: TIME_DOUBLE carries (status, severity, stamp)
\* metadata, FLOAT is a native type with no metadata.
WireTypes == {"TIME_DOUBLE", "FLOAT"}
native_types == {"FLOAT"}
native_type(T) == IF T = "TIME_DOUBLE" THEN "DOUBLE" ELSE T

\* The metadata of a native type (b'').
NoMetadata == [k |-> "empty"]
\* A local variable not yet assigned.
Unbound == [k |-> "unbound"]

\* backend.convert_values, TO_WIRE, of a numeric value: the elements cast to
\* the native wire type (exact on the integers used here), tagged with it.
convert_values(value, to_dtype) == [dtype |-> to_dtype, e |-> value.e]

\* A _read whose metadata take the status from the alarm and leave the
\* severity as the record was allocated.
read_torn(ch, al, T) ==
    [md |-> IF T \in native_types THEN NoMetadata
            ELSE [k |-> "time", status |-> al.status,
                  severity |-> NO_ALARM_SEV, stamp |-> ch.timestamp],
     values |-> convert_values(ch.value, native_type(T))]

\* ChannelData._read(data_type) on channel record ch whose alarm record is
\* al: (metadata, values).  _read_metadata fills stamp; the alarm's status
\* and severity are copied over.
read(ch, al, T) ==
    [md |-> IF T \in native_types THEN NoMetadata
            ELSE [k |-> "time", status |-> al.status,
                  severity |-> al.severity, stamp |-> ch.timestamp],
     values |-> convert_values(ch.value, native_type(T))]

\* ----------------------------------------------------------- subscriptions
\* SubscriptionSpecs: hashable specs, each asking for one wire type, none
\* with a sync filter.  The subscription handle of a spec is its name.
SpecIds == {"s1", "s2", "s3"}
data_type_name(s) == IF s = "s3" THEN "FLOAT" ELSE "TIME_DOUBLE"

\* Specs with a sync filter on state S: sb (S, before), sa (S, after), both
\* asking for TIME_DOUBLE.  sync(s) is the mode of channel_filter.sync.
SyncSpecIds == {"sb", "sa"}
sync(s) == IF s = "sb" THEN "before" ELSE IF s = "sa" THEN "after" ELSE NoneStr

\* The (queue, data type, sync) groups of the registry
\* _queues[queue][sync][data_type_name], in the order publish visits them:
\* by queue, then by sync, then by data type.
GroupSeq ==
    << <<"q1", "TIME_DOUBLE", NoneStr>>, <<"q1", "FLOAT", NoneStr>>,
       <<"q1", "TIME_DOUBLE", "before">>, <<"q1", "TIME_DOUBLE", "after">>,
       <<"q2", "TIME_DOUBLE", NoneStr>>, <<"q2", "FLOAT", NoneStr>>,
       <<"q2", "TIME_DOUBLE", "before">>, <<"q2", "TIME_DOUBLE", "after">> >>
Groups == {GroupSeq[i] : i \in 1..Len(GroupSeq)}

\* The keys of the conversion cache _content: subscribe stores and looks up
\* under the data type's name, publish looks up under the name and stores
\* under the ChannelType.
CacheKeys == {"name", "type"} \X WireTypes
NoEntry == [k |-> "absent"]
EmptyContent == [key \in CacheKeys |-> NoEntry]

\* SubscriptionUpdate(sub_specs, metadata, values, flags, sub).  pub is not
\* a field of the program's update: it names the call that made it, the
\* channel, the operation's number and which of the operation's publish
\* calls (0: subscribe's initial update).
SubscriptionUpdate(specs, md, values, flags, sub) ==
    [sub_specs |-> specs, metadata |-> md, values |-> values,
     flags |-> flags, sub |-> sub, pub |-> <<"A", 0, 0>>]
NoUpdate == [k |-> "none"]

\* ------------------------------------------------------------------- state
VARIABLES
    chan,     \* channel -> its record (_data, max_length, alarm, staged alarm)
    alarm,    \* alarm -> its record (_data and the attached channels)
    subs,     \* channel -> group -> the specs subscribed (_queues)
    keys,     \* channel -> the groups _queues holds a set for, empty or not
    content,  \* channel -> cache key -> cached (metadata, values) (_content)
    queue,    \* queue -> the updates put on it, oldest first
    task,     \* task -> the coroutine it runs and where it is suspended
    clock,    \* operations started so far; time.time()
    hist      \* what the last ChannelAlarm.write call did

vars == <<chan, alarm, subs, keys, content, queue, task, clock, hist>>

ZeroReads == [T \in WireTypes |-> 0]

\* What a task remembers of the state its operation started in (the queues
\* as the step that starts the operation leaves them).
Snapshot(c) ==
    [value |-> chan[c].value,
     timestamp |-> chan[c].timestamp,
     status |-> alarm[chan[c].alarm].status,
     severity |-> alarm[chan[c].alarm].severity,
     qlen |-> [q \in Queues |-> Len(queue'[q])]]

\* _queues is a defaultdict of defaultdicts of defaultdicts of sets:
\* looking a group up makes its three keys.  The keys a registry filled by
\* subscribe calls alone holds.
KeysOf(reg) == {g \in Groups : reg[g] # {}}
\* The keys of _queues, of _queues[q] and of _queues[q][sy], given the
\* groups K that have a set.
QueueKeys(K) == {g[1] : g \in K}
SyncKeys(K, q) == {g[3] : g \in {h \in K : h[1] = q}}
TypeKeys(K, q, sy) == {g[2] : g \in {h \in K : h[1] = q /\ h[3] = sy}}
NoIterators == [queues |-> {}, syncs |-> {}, types |-> {}]

\* A task: op is the coroutine, pc its position ("put": suspended in
\* queue.put with the update pend for queue pq).  pubs are the publish calls
\* still to run, each (channel, flags); pos is the group of GroupSeq the
\* running publish has reached (-1: not started); md is publish's local
\* `metadata`; fan: write's alarm.publish(except_for=self) is still to come;
\* exc is the exception being propagated; result is how the coroutine ended.
\* pre, arg and nread record the start state, the value written and the
\* _read calls of the running publish.  pc = "hook": suspended in the
\* update_fields hook; hook records how the hook ended.  call numbers the
\* operation (the clock when it started), npub counts its publish calls.
\* state and new_value are the arguments of pre_/post_state_change, filled
\* the (state, mode) entries a write filled with its snapshot.  dbr is the
\* data type of a write_from_dbr / read, access the rights check_access gave,
\* ret what a read returned, kw the metadata keywords write was called with,
\* hooks the calls of the verify_value and update_fields hooks it made.
\* it holds, for the three dictionary iterators of the running publish, the
\* keys each dictionary had when its iterator was made.
\* sub_spec is the spec an unsubscribe was called with.
IdleTask ==
    [op |-> "idle", pc |-> "idle", ch |-> "A", pubs |-> <<>>, pos |-> -1,
     fan |-> FALSE, flags |-> {}, pend |-> NoUpdate, pq |-> "q1",
     md |-> Unbound, exc |-> "none", result |-> "none",
     pre |-> [k |-> "none"], arg |-> Sc(0), nread |-> ZeroReads,
     hook |-> "none", call |-> 0, npub |-> 0,
     state |-> "S", new_value |-> FALSE, filled |-> {},
     dbr |-> NoneStr, access |-> {}, ret |-> NoUpdate,
     kw |-> [timestamp |-> NoneInt, status |-> NoneStr, severity |-> NoneInt],
     hooks |-> <<>>, it |-> NoIterators, sub_spec |-> NoneStr]

Free(t) == task[t].pc \in {"idle", "done"}
AllFree == \A t \in Tasks : Free(t)

ChanSeq == <<"A", "B">>
\* A fan-out that reaches no channel.
PubJobsNone(S, flags) == <<>>

\* for channel in S: channel.publish(flags)
PubJobs(S, flags) ==
    LET sel == SelectSeq(ChanSeq, LAMBDA c : c \in S)
    IN [i \in 1..Len(sel) |-> [c |-> sel[i], flags |-> flags]]

\* _is_eligible for the specs of group g of a channel with snapshots snaps
\* of state S: sync is None or sync.m in self._snapshots[sync.s].
is_eligible(snaps, g) == g[3] = NoneStr \/ snaps[g[3]].k # "absent"

\* The next group after position pos with an eligible spec (0: none left).
NextGroup(reg, snaps, pos) ==
    LET later == {i \in 1..Len(GroupSeq) :
                     /\ i > pos
                     /\ reg[GroupSeq[i]] # {}
                     /\ is_eligible(snaps, GroupSeq[i])}
    IN IF later = {} THEN 0 ELSE CHOOSE i \in later : \A j \in later : i <= j

\* The publish call task tk is running: the channel, the number of the
\* operation, and the number of the publish call within the operation.
PublishCall(tk) == <<Head(tk.pubs).c, tk.call, tk.npub>>

\* The loop of publish goes on from group tk.pos to group i (0: to its end)
\* over dictionaries whose keys are now K.  next() of a dictionary iterator
\* raises RuntimeError when the dictionary has grown since the iterator was
\* made: the iterator over the types of the group's (queue, sync) is asked
\* first, the one over the syncs of the queue when the types are exhausted,
\* the one over the queues when the syncs are.
dict_changed(tk, K, i) ==
    /\ tk.pos > 0
    /\ LET g0 == GroupSeq[tk.pos]
           sameQ == i # 0 /\ GroupSeq[i][1] = g0[1]
           sameSync == sameQ /\ GroupSeq[i][3] = g0[3]
       IN \/ TypeKeys(K, g0[1], g0[3]) # tk.it.types
          \/ ~sameSync /\ SyncKeys(K, g0[1]) # tk.it.syncs
          \/ ~sameQ /\ QueueKeys(K) # tk.it.queues

\* The iterators the loop holds at group i: `for ... in d.items()` makes
\* the iterator of a dictionary when the loop over it starts.
iterators(tk, K, i) ==
    LET g == GroupSeq[i]
        sameQ == tk.pos > 0 /\ GroupSeq[tk.pos][1] = g[1]
        sameSync == sameQ /\ GroupSeq[tk.pos][3] = g[3]
    IN [queues |-> IF tk.pos > 0 THEN tk.it.queues ELSE QueueKeys(K),
        syncs |-> IF sameQ THEN tk.it.syncs ELSE SyncKeys(K, g[1]),
        types |-> IF sameSync THEN tk.it.types ELSE TypeKeys(K, g[1], g[3])]

\* The key publish stores a conversion under: channel_data._content[data_type].
PublishStoreKey(T) == <<"type", T>>

\* (The conversion of a snapshot's reading goes into the snapshot's own
\* cache, which nothing reads: it is not modelled.)
\* Runs task tk from where it stands to its next queue.put or to its end,
\* over channels ch, alarms al, registry sb and caches cont: the loop of
\* ChannelData.publish, ChannelAlarm.publish's loop over channels, and the
\* tail of write.  Returns the caches and the task.
RECURSIVE Run(_, _, _, _, _)
Run(ch, al, sb, cont, tk) ==
    IF tk.pubs = <<>>
    THEN IF tk.fan
         THEN Run(ch, al, sb, cont,
                  [tk EXCEPT !.fan = FALSE, !.pos = -1,
                             !.pubs = PubJobs(al[ch[tk.ch].alarm].channels \ {tk.ch},
                                              tk.flags)])
         ELSE [content |-> cont,
               task |-> [tk EXCEPT !.pc = "done", !.result = tk.exc,
                                   !.pos = -1, !.md = Unbound]]
    ELSE LET c == Head(tk.pubs).c
             fl == Head(tk.pubs).flags
         IN IF tk.pos = -1
            THEN \* self._content.clear()
                 Run(ch, al, sb, [cont EXCEPT ![c] = EmptyContent],
                     [tk EXCEPT !.pos = 0, !.md = Unbound, !.nread = ZeroReads,
                                !.npub = @ + 1])
            ELSE LET i == NextGroup(sb[c], ch[c]._snapshots["S"], tk.pos)
                 IN IF dict_changed(tk, keys[c], i)
                    THEN \* dictionary changed size during iteration
                         [content |-> cont,
                          task |-> [tk EXCEPT !.pc = "done",
                                              !.result = "RuntimeError",
                                              !.pubs = <<>>, !.fan = FALSE,
                                              !.pos = -1, !.md = Unbound,
                                              !.it = NoIterators]]
                    ELSE IF i = 0
                    THEN Run(ch, al, sb, cont,
                             [tk EXCEPT !.pubs = Tail(@), !.pos = -1,
                                        !.it = NoIterators])
                    ELSE LET g == GroupSeq[i]
                             T == g[2]
                             hit == cont[c][<<"name", T>>].k # "absent"
                             snap == IF g[3] = NoneStr THEN Live
                                     ELSE ch[c]._snapshots["S"][g[3]]
                             \* channel_data._read(data_type)
                             r == IF snap.k = "live"
                                  THEN read(ch[c], al[ch[c].alarm], T)
                                  ELSE read(snap.ch, snap.al, T)
                         IN IF hit /\ tk.md.k = "unbound"
                            THEN \* `metadata` was never assigned
                                 [content |-> cont,
                                  task |-> [tk EXCEPT !.pc = "done",
                                                      !.result = "UnboundLocalError",
                                                      !.pubs = <<>>, !.fan = FALSE,
                                                      !.pos = -1, !.md = Unbound,
                                                      !.it = NoIterators]]
                            ELSE LET md == IF hit THEN tk.md ELSE r.md
                                     vals == IF hit THEN cont[c][<<"name", T>>].values
                                             ELSE r.values
                                 IN [content |->
                                        IF hit \/ snap.k # "live" THEN cont
                                        ELSE [cont EXCEPT ![c][PublishStoreKey(T)] =
                                                 [k |-> "entry", md |-> r.md,
                                                  values |-> r.values]],
                                     task |->
                                        [tk EXCEPT
                                           !.pc = "put", !.pos = i, !.md = md,
                                           !.pq = g[1],
                                           !.it = iterators(tk, keys[c], i),
                                           !.pend =
                                              [SubscriptionUpdate(
                                                  sb[c][g], md, vals, fl, NoneStr)
                                               EXCEPT !.pub = PublishCall(tk)],
                                           !.nread[T] = @ + (IF hit THEN 0 ELSE 1)]]

\* A write that ends without its finally clause.
FinishNoCollect(ch, tk) == ch

\* write's `finally: alarm_md = self._collect_alarm()` when the coroutine of
\* task tk ends with an exception after its except handler: the staged alarm
\* of its channel is cleared.  (Without an exception the finally clause ran
\* before the commit.)
Finish(ch, tk) ==
    IF tk.pc = "done" /\ tk.op = "write" /\ tk.exc # "none"
    THEN [ch EXCEPT ![tk.ch] = clear_cached_alarms(@)]
    ELSE ch

\* -------------------------------------------------------------------- Init
Init ==
    /\ \E ml \in {1, MaxLen} :
          chan = [c \in Channels |->
                    IF c = "A" THEN NewChannel(ml, Sc(1), S1Limits, "a1")
                    ELSE NewChannel(1, Sc(1), S1Limits, "a2")]
    /\ alarm = [a \in Alarms |->
                  [NewAlarm EXCEPT !.channels = IF a = "a1" THEN {"A"} ELSE {"B"}]]
    /\ subs = [c \in Channels |-> [g \in Groups |-> {}]]
    /\ keys = [c \in Channels |-> {}]
    /\ content = [c \in Channels |-> EmptyContent]
    /\ queue = [q \in Queues |-> <<>>]
    /\ task = [t \in Tasks |-> IdleTask]
    /\ clock = 0
    /\ hist = [k |-> "none", a |-> "a1", prior_acks |-> 0, prior_ackt |-> TRUE,
               prior_severity |-> NO_ALARM_SEV,
               severity_written |-> FALSE, ack_requested |-> FALSE,
               acked |-> FALSE, latched |-> 0,
               rising |-> FALSE, acked_since |-> FALSE]

\* ------------------------------------------------------------------- write
\* The metadata keyword arguments of write / write_metadata modelled:
\* timestamp, status, severity (None = not given).
NoMd == [timestamp |-> NoneInt, status |-> NoneStr, severity |-> NoneInt]

\* The try block of write: preprocess_value, verify_value, the update_fields
\* hook (hook = "error": it raises).  exc is the exception that leaves the
\* block, ch the channel with the alarm verify_value staged, value the
\* preprocessed value (verify_value returns it unchanged).
WriteTry(ch0, raw, hook) ==
    LET pp == preprocess_value(ch0.max_length, raw)
        vv == verify_value(ch0.lim, pp.value)
    IN IF pp.exc # "none" THEN [exc |-> pp.exc, ch |-> ch0, value |-> pp.value]
       ELSE IF vv.exc # "none" THEN [exc |-> vv.exc, ch |-> ch0, value |-> pp.value]
       ELSE [exc |-> IF hook = "error" THEN "HookError" ELSE "none",
             ch |-> IF vv.staged
                    THEN [ch0 EXCEPT !._status = vv.status, !._severity = vv.severity]
                    ELSE ch0,
             value |-> pp.value]

\* An except handler that writes only the status.
WriteFailArgsStatusOnly == [NoArgs EXCEPT !.status = "WRITE"]

\* except Exception: alarm.write(status=WRITE, severity=MAJOR_ALARM)
WriteFailArgs == [NoArgs EXCEPT !.status = "WRITE", !.severity = MAJOR_ALARM]

\* Metadata whose timestamp is always the time of the write.
WriteMetadataArgsNow(umd, amd, now) ==
    [timestamp |-> now,
     status |-> IF amd.status # NoneStr THEN amd.status ELSE umd.status,
     severity |-> IF amd.severity # NoneInt THEN amd.severity ELSE umd.severity]

\* metadata.update(alarm_md); metadata.setdefault('timestamp', time.time())
WriteMetadataArgs(umd, amd, now) ==
    [timestamp |-> IF umd.timestamp # NoneInt THEN umd.timestamp ELSE now,
     status |-> IF amd.status # NoneStr THEN amd.status ELSE umd.status,
     severity |-> IF amd.severity # NoneInt THEN amd.severity ELSE umd.severity]

\* The arguments write_metadata hands to alarm.write.
MdAlarmArgs(md) == [NoArgs EXCEPT !.status = md.status, !.severity = md.severity]

\* The except handler of write for task record base with exception exc
\* pending, over the channel ch1 the try block left: alarm.write(status=
\* WRITE, severity=MAJOR_ALARM) publishes, then `raise`, then the finally
\* clause.
WriteFailed(t, c, base, ch1, exc) ==
    LET a == ch1.alarm
        al0 == alarm[a]
        al1 == AlarmWrite(al0, WriteFailArgs)
        fl == AlarmWriteFlags(al0, WriteFailArgs, {})
        chan1 == [chan EXCEPT ![c] = ch1]
        alarm1 == [alarm EXCEPT ![a] = al1]
        r == Run(chan1, alarm1, subs, content,
                 [base EXCEPT !.exc = exc, !.pubs = PubJobs(al1.channels, fl)])
    IN /\ alarm' = alarm1
       /\ content' = r.content
       /\ task' = [task EXCEPT ![t] = r.task]
       /\ chan' = Finish(chan1, r.task)

\* A snapshot that is the channel itself.
deepcopy_shares(ch, al) == Live

\* copy.deepcopy(self) of a channel with alarm record al: copies of the
\* channel's data and of its alarm.  (The copy's own snapshot map, which
\* nothing consults, is left out.)
deepcopy(ch, al) ==
    [k |-> "copy",
     ch |-> [ch EXCEPT !._snapshots = [st \in States |-> [m \in Modes |-> NoSnap]],
                       !._fill_at_next_write = <<>>],
     al |-> al]

\* for state, mode in self._fill_at_next_write:
\*     self._snapshots[state][mode] = snapshot
RECURSIVE fill(_, _, _)
fill(snaps, todo, snapshot) ==
    IF todo = <<>> THEN snaps
    ELSE fill([snaps EXCEPT ![Head(todo)[1]][Head(todo)[2]] = snapshot],
              Tail(todo), snapshot)

\* write after its try block left no exception, over the channel ch1 the
\* block left: the finally clause collects the staged alarm, the metadata
\* are completed (now = time.time()), the queued snapshot entries are filled
\* with a copy of the channel as it is then, the value is stored,
\* write_metadata and publish run up to the first queue.put.
WriteCommittedFlags(t, c, base, ch1, value, umd, now, flags) ==
    LET a == ch1.alarm
        al0 == alarm[a]
        amd == collect_alarm(ch1, al0)
        md == WriteMetadataArgs(umd, amd, now)
        touched == md.status # NoneStr \/ md.severity # NoneInt
        al1 == IF touched THEN AlarmWrite(al0, MdAlarmArgs(md)) ELSE al0
        todo == ch1._fill_at_next_write
        snapshot == deepcopy(clear_cached_alarms(ch1), al0)
        chan1 == [chan EXCEPT ![c] =
                    [clear_cached_alarms(ch1) EXCEPT
                        !._snapshots = fill(@, todo, snapshot),
                        !._fill_at_next_write = <<>>,
                        !.value = value,
                        !.timestamp = md.timestamp]]
        alarm1 == [alarm EXCEPT ![a] = al1]
        r == Run(chan1, alarm1, subs, content,
                 [base EXCEPT !.pubs = <<[c |-> c, flags |-> flags]>>,
                              !.fan = touched, !.flags = flags,
                              !.filled = {todo[i] : i \in 1..Len(todo)}])
    IN /\ alarm' = alarm1
       /\ content' = r.content
       /\ task' = [task EXCEPT ![t] = r.task]
       /\ chan' = Finish(chan1, r.task)

\* ChannelData.write called with its default flags=0.
WriteCommitted(t, c, base, ch1, value, umd, now) ==
    WriteCommittedFlags(t, c, base, ch1, value, umd, now, {})

\* write(value, **umd) on channel c by task t, up to its first suspension
\* in queue.put (the hooks do not suspend).
StartWrite(t, c, raw, hook, umd) ==
    LET ch0 == chan[c]
        try == WriteTry(ch0, raw, hook)
        base == [IdleTask EXCEPT !.op = "write", !.ch = c, !.pre = Snapshot(c),
                                 !.arg = try.value, !.call = clock',
                                 !.kw = umd]
    IN /\ Free(t)
       /\ IF try.exc # "none"
          THEN WriteFailed(t, c, base, try.ch, try.exc)
          ELSE WriteCommitted(t, c, base, try.ch, try.value, umd, clock')
       /\ UNCHANGED <<subs, keys, hist>>

\* ------------------------------------------------- hooks that suspend
\* What a suspended hook does when it is resumed: it returns the value,
\* raises an exception, raises SkipWrite, or (verify_value) returns SkipWrite.
HookOutcomes == {"ok", "error", "skip", "skip_value"}
HookRaises(out) ==
    IF out = "error" THEN "HookError"
    ELSE IF out = "skip" THEN "SkipWrite"
    ELSE "none"

\* A handler list whose `except Exception` also catches the cancellation.
ExceptClauseCancelCaught(exc) ==
    IF exc = "SkipWrite" THEN "return"
    ELSE IF exc = "GeneratorExit" THEN "raise"
    ELSE "alarm"

\* A handler list without `except SkipWrite`.
ExceptClauseNoSkip(exc) ==
    IF exc \in {"GeneratorExit", "CancelledError"} THEN "raise" ELSE "alarm"

\* The except clause of write's try statement that handles exc: `except
\* SkipWrite: return`, `except GeneratorExit: raise`, `except Exception:`
\* (alarm.write, raise).  asyncio.CancelledError is a BaseException (Python
\* 3.8 on): no clause catches it, it propagates after the finally clause.
ExceptClause(exc) ==
    IF exc = "SkipWrite" THEN "return"
    ELSE IF exc \in {"GeneratorExit", "CancelledError"} THEN "raise"
    ELSE "alarm"

\* write(value) on channel c by task t, up to its first suspension: in the
\* update_fields hook when preprocess_value and verify_value pass (the alarm
\* verify_value staged is on the channel), else as StartWrite.
WriteToHook(t, c, raw) ==
    LET ch0 == chan[c]
        try == WriteTry(ch0, raw, "ok")
        base == [IdleTask EXCEPT !.op = "write", !.ch = c, !.pre = Snapshot(c),
                                 !.arg = try.value, !.call = clock']
    IN /\ Free(t)
       /\ IF try.exc # "none"
          THEN WriteFailed(t, c, base, try.ch, try.exc)
          ELSE /\ chan' = [chan EXCEPT ![c] = try.ch]
               /\ task' = [task EXCEPT ![t] = [base EXCEPT !.pc = "hook"]]
               /\ UNCHANGED <<alarm, content>>
       /\ UNCHANGED <<subs, keys, hist>>

\* `except SkipWrite: return` and `if modified_value is SkipWrite: return`,
\* both after the finally clause, for the write of task t with record tk.
WriteSkipped(t, tk) ==
    /\ task' = [task EXCEPT ![t] = [tk EXCEPT !.pc = "done"]]
    /\ chan' = [chan EXCEPT ![tk.ch] = clear_cached_alarms(@)]
    /\ UNCHANGED <<alarm, content>>

\* The hook the write of task t is suspended in ends with outcome out.
HookReturns(t, out) ==
    LET tk == [task[t] EXCEPT !.hook = out]
        c == tk.ch
        exc == HookRaises(out)
    IN /\ task[t].pc = "hook"
       /\ IF exc = "none"
          THEN IF out = "skip_value"
               THEN WriteSkipped(t, tk)
               ELSE WriteCommitted(t, c, tk, chan[c], tk.arg, NoMd, clock)
          ELSE IF ExceptClause(exc) = "return"
               THEN WriteSkipped(t, tk)
               ELSE WriteFailed(t, c, tk, chan[c], exc)
       /\ UNCHANGED <<subs, keys, queue, clock, hist>>

\* The SkipWrite class handed around as a value.
SkipWriteValue == [k |-> "SkipWrite"]

\* What a verify_value hook of a subclass does after the limit check of
\* ChannelNumeric: it returns the value, returns SkipWrite, raises SkipWrite
\* or raises an error.  What an update_fields hook does: it returns, raises
\* SkipWrite or raises an error.
VerifyOutcomes == {"ok", "skip_value", "skip", "error"}
UpdateOutcomes == {"ok", "skip", "error"}

\* `if update_fields:` with write's default update_fields=True: the hook is
\* called whatever verify_value returned.
calls_update_fields(modified_value) == TRUE

\* write(raw) on channel c by task t, the channel's class overriding
\* verify_value (outcome vv_out) and update_fields (outcome uf_out), neither
\* suspending: the try block calls preprocess_value, verify_value and
\* update_fields(modified_value); the except clauses and the finally clause
\* follow, then `if modified_value is SkipWrite: return`, then the commit.
\* hooks logs the hook calls with their arguments.
WriteWithHooks(t, c, raw, vv_out, uf_out) ==
    LET ch0 == chan[c]
        pp == preprocess_value(ch0.max_length, raw)
        try == WriteTry(ch0, raw, "ok")
        vv_exc == IF try.exc # "none" THEN try.exc ELSE HookRaises(vv_out)
        modified_value == IF vv_out = "skip_value" THEN SkipWriteValue
                          ELSE try.value
        uf_called == vv_exc = "none" /\ calls_update_fields(modified_value)
        exc == IF vv_exc # "none" THEN vv_exc
               ELSE IF uf_called THEN HookRaises(uf_out) ELSE "none"
        log == (IF pp.exc = "none"
                THEN <<[hook |-> "verify_value", arg |-> pp.value,
                        ret |-> IF vv_exc = "none" THEN modified_value
                                ELSE [k |-> vv_exc]]>>
                ELSE <<>>)
               \o (IF uf_called
                   THEN <<[hook |-> "update_fields", arg |-> modified_value,
                           ret |-> [k |-> HookRaises(uf_out)]]>>
                   ELSE <<>>)
        base == [IdleTask EXCEPT !.op = "write", !.ch = c, !.pre = Snapshot(c),
                                 !.arg = try.value, !.call = clock',
                                 !.hooks = log]
    IN /\ Free(t)
       /\ IF exc # "none"
          THEN IF ExceptClause(exc) = "return"
               THEN WriteSkipped(t, base)
               ELSE WriteFailed(t, c, base, try.ch, exc)
          ELSE IF modified_value = SkipWriteValue
               THEN WriteSkipped(t, base)
               ELSE WriteCommitted(t, c, base, try.ch, try.value, NoMd, clock')
       /\ UNCHANGED <<subs, keys, hist>>

\* ------------------------------------------------------------- unsubscribe
\* unsubscribe(queue q, spec s) on channel c: the lookups make the keys of
\* the spec's group, discard takes the spec out of the group's set if it is
\* there.  The coroutine has no suspension point.  pre records the set the
\* call found and the set it leaves.
Unsubscribe(t, c, q, s) ==
    LET g == <<q, data_type_name(s), sync(s)>>
    IN /\ Free(t)
       /\ subs' = [subs EXCEPT ![c][g] = @ \ {s}]
       /\ keys' = [keys EXCEPT ![c] = @ \cup {g}]
       /\ task' = [task EXCEPT ![t] =
                     [IdleTask EXCEPT !.op = "unsubscribe", !.ch = c,
                                      !.pc = "done", !.pq = q, !.sub_spec = s,
                                      !.call = clock',
                                      !.pre = [k |-> "unsubscribe",
                                               had |-> subs[c][g],
                                               left |-> subs'[c][g]]]]
       /\ UNCHANGED <<chan, alarm, content, hist>>

\* The coroutine of task t is cancelled where it is suspended.  In the hook
\* of write, CancelledError goes through write's try statement.  In
\* queue.put it ends the publish; the finally clause of write is still to
\* run when the publish is the except handler's.
Cancel(t) ==
    LET tk == [task[t] EXCEPT !.hook = "cancel"]
        done == [tk EXCEPT !.pc = "done", !.result = "CancelledError",
                           !.pubs = <<>>, !.fan = FALSE, !.pos = -1,
                           !.md = Unbound, !.pend = NoUpdate]
    IN /\ tk.pc \in {"hook", "put"}
       /\ IF tk.pc = "hook" /\ ExceptClause("CancelledError") = "alarm"
          THEN WriteFailed(t, tk.ch, tk, chan[tk.ch], "CancelledError")
          ELSE /\ task' = [task EXCEPT ![t] = done]
               /\ chan' = IF tk.op = "write" /\ (tk.pc = "hook" \/ tk.exc # "none")
                          THEN [chan EXCEPT ![tk.ch] = clear_cached_alarms(@)]
                          ELSE chan
               /\ UNCHANGED <<alarm, content>>
       /\ UNCHANGED <<subs, keys, queue, clock, hist>>

\* --------------------------------------------------------------- subscribe
\* subscribe's (metadata, values): the cached entry under the data type's
\* name, else a fresh _read.
SubscribeEntry(cont, ch, al, T) ==
    IF cont[<<"name", T>>].k # "absent" THEN cont[<<"name", T>>]
    ELSE LET r == read(ch, al, T)
         IN [k |-> "entry", md |-> r.md, values |-> r.values]

\* subscribe(queue q, spec s, handle s) on channel c, up to queue.put.
StartSubscribe(t, c, q, s) ==
    LET T == data_type_name(s)
        entry == SubscribeEntry(content[c], chan[c], alarm[chan[c].alarm], T)
    IN /\ Free(t)
       /\ subs' = [subs EXCEPT ![c][<<q, T, sync(s)>>] = @ \cup {s}]
       /\ keys' = [keys EXCEPT ![c] = @ \cup {<<q, T, sync(s)>>}]
       /\ content' = [content EXCEPT ![c][<<"name", T>>] = entry]
       /\ task' = [task EXCEPT ![t] =
                     [IdleTask EXCEPT !.op = "subscribe", !.ch = c, !.pc = "put",
                                      !.pre = Snapshot(c), !.pq = q,
                                      !.call = clock',
                                      !.pend =
                                         [SubscriptionUpdate(
                                             {s}, entry.md, entry.values, {}, s)
                                          EXCEPT !.pub = <<c, clock', 0>>]]]
       /\ UNCHANGED <<chan, alarm, hist>>

\* A task resumes in queue.put: the update goes on the queue and the task
\* runs on to its next put or to its end.
Put(t) ==
    LET tk == task[t]
        r == Run(chan, alarm, subs, content, [tk EXCEPT !.pend = NoUpdate])
    IN /\ tk.pc = "put"
       /\ queue' = [queue EXCEPT ![tk.pq] = Append(@, tk.pend)]
       /\ content' = r.content
       /\ task' = [task EXCEPT ![t] = r.task]
       /\ chan' = Finish(chan, r.task)
       /\ UNCHANGED <<alarm, subs, keys, clock, hist>>

\* ---------------------------------------------------------- write_metadata
\* write_metadata(publish, timestamp, status, severity) on channel c.
StartWriteMetadata(t, c, publish, md) ==
    LET ch0 == chan[c]
        a == ch0.alarm
        al0 == alarm[a]
        touched == md.status # NoneStr \/ md.severity # NoneInt
        al1 == IF touched THEN AlarmWrite(al0, MdAlarmArgs(md)) ELSE al0
        chan1 == [chan EXCEPT ![c].timestamp =
                     IF md.timestamp # NoneInt THEN md.timestamp ELSE @]
        alarm1 == [alarm EXCEPT ![a] = al1]
        jobs == (IF touched /\ publish
                 THEN PubJobs(al1.channels, AlarmWriteFlags(al0, MdAlarmArgs(md), {}))
                 ELSE <<>>)
                \o (IF publish THEN <<[c |-> c, flags |-> {DBE_PROPERTY}]>> ELSE <<>>)
        r == Run(chan1, alarm1, subs, content,
                 [IdleTask EXCEPT !.op = "write_metadata", !.ch = c,
                                  !.pre = Snapshot(c), !.pubs = jobs,
                                  !.call = clock'])
    IN /\ Free(t)
       /\ chan' = chan1
       /\ alarm' = alarm1
       /\ content' = r.content
       /\ task' = [task EXCEPT ![t] = r.task]
       /\ UNCHANGED <<subs, keys, hist>>

\* ------------------------------------------------------ ChannelAlarm.write
Max(x, y) == IF x >= y THEN x ELSE y

\* alarm.write(**p, publish=publish) on alarm a.  hist keeps of the call:
\* severity_to_acknowledge and must_acknowledge_transient before it, whether
\* it wrote severity, whether its acknowledgement request took effect, and
\* `latched`, the highest severity written under must_acknowledge_transient
\* since the last acknowledgement that took effect; the severity before it,
\* whether it carried an acknowledgement request; `rising`: the most recent
\* change of severity was an increase; `acked_since`: an acknowledgement
\* took effect since (or in the call of) the most recent change of severity.
StartAlarmWrite(t, a, p, publish) ==
    LET al0 == alarm[a]
        al1 == AlarmWrite(al0, p)
        alarm1 == [alarm EXCEPT ![a] = al1]
        r == Run(chan, alarm1, subs, content,
                 [IdleTask EXCEPT !.op = "alarm_write", !.call = clock',
                                  !.pubs = IF publish
                                           THEN PubJobs(al1.channels,
                                                        AlarmWriteFlags(al0, p, {}))
                                           ELSE <<>>])
    IN /\ Free(t)
       /\ alarm' = alarm1
       /\ content' = r.content
       /\ task' = [task EXCEPT ![t] = r.task]
       /\ hist' = [k |-> "call", a |-> a,
                   prior_acks |-> al0.severity_to_acknowledge,
                   prior_ackt |-> al0.must_acknowledge_transient,
                   prior_severity |-> al0.severity,
                   severity_written |-> p.severity # NoneInt,
                   ack_requested |-> p.severity_to_acknowledge # NoneInt,
                   acked |-> EffectiveAck(al0, p),
                   latched |->
                      IF (~al1.must_acknowledge_transient) \/ EffectiveAck(al0, p)
                      THEN 0
                      ELSE IF p.severity # NoneInt /\ al0.must_acknowledge_transient
                           THEN Max(IF hist.a = a THEN hist.latched ELSE 0, p.severity)
                           ELSE IF hist.a = a THEN hist.latched ELSE 0,
                   rising |->
                      IF al1.severity > al0.severity THEN TRUE
                      ELSE IF al1.severity < al0.severity THEN FALSE
                      ELSE hist.a = a /\ hist.rising,
                   acked_since |->
                      IF EffectiveAck(al0, p) THEN TRUE
                      ELSE IF al1.severity # al0.severity THEN FALSE
                      ELSE hist.a = a /\ hist.acked_since]
       /\ UNCHANGED <<chan, subs, keys>>

\* ------------------------------------------------- auth_write / auth_read
\* AccessRights: a set of READ and WRITE; NO_ACCESS is the empty set.
AccessRights == SUBSET {"READ", "WRITE"}

\* ChannelData.check_access as defined: READ | WRITE for every client.
check_access == {"READ", "WRITE"}

\* The data types of a write request: the two acknowledgement types, the
\* two types that cannot be written, and a numeric type.
PutTypes == {"PUT_ACKS", "PUT_ACKT", "STSACK_STRING", "CLASS_NAME", "DOUBLE"}

\* backend.convert_values, FROM_WIRE: the elements of the wire array as a
\* Python list.
convert_values_from_wire(data) == Arr(data.e)

\* A write_from_dbr that takes every data type for a value.
dbr_kind_all_values(data_type) == "value"

\* The branch of write_from_dbr for data_type.
dbr_kind(data_type) ==
    IF data_type = "PUT_ACKS" THEN "acks"
    ELSE IF data_type = "PUT_ACKT" THEN "ackt"
    ELSE IF data_type \in {"STSACK_STRING", "CLASS_NAME"} THEN "bad"
    ELSE "value"

\* write_from_dbr(data, data_type, metadata) on channel c for the task with
\* record base: PUT_ACKS / PUT_ACKT call alarm.write with metadata.value (mv)
\* and return; STSACK_STRING / CLASS_NAME raise CaprotoValueError; any other
\* type converts the data and calls write (metadata None).
write_from_dbr(t, c, base, data, data_type, mv) ==
    LET kind == dbr_kind(data_type)
        ch0 == chan[c]
        a == ch0.alarm
        al0 == alarm[a]
    IN IF kind \in {"acks", "ackt"}
       THEN LET p == IF kind = "acks"
                     THEN [NoArgs EXCEPT !.severity_to_acknowledge = mv]
                     ELSE [NoArgs EXCEPT !.must_acknowledge_transient =
                                            IF mv = 0 THEN "False" ELSE "True"]
                al1 == AlarmWrite(al0, p)
                alarm1 == [alarm EXCEPT ![a] = al1]
                r == Run(chan, alarm1, subs, content,
                         [base EXCEPT !.op = "alarm_write", !.arg = Sc(mv),
                                      !.pubs = PubJobs(al1.channels,
                                                       AlarmWriteFlags(al0, p, {}))])
            IN /\ alarm' = alarm1
               /\ content' = r.content
               /\ task' = [task EXCEPT ![t] = r.task]
               /\ UNCHANGED chan
       ELSE IF kind = "bad"
       THEN /\ task' = [task EXCEPT ![t] =
                          [base EXCEPT !.op = "write_from_dbr", !.pc = "done",
                                       !.result = "CaprotoValueError"]]
            /\ UNCHANGED <<chan, alarm, content>>
       ELSE LET try == WriteTry(ch0, convert_values_from_wire(data), "ok")
                wbase == [base EXCEPT !.op = "write", !.arg = try.value]
            IN IF try.exc # "none"
               THEN WriteFailed(t, c, wbase, try.ch, try.exc)
               ELSE WriteCommitted(t, c, wbase, try.ch, try.value, NoMd, clock')

\* An access check that lets every client through.
granted_always(access, right) == TRUE

\* AccessRights.<right> in access
granted(access, right) == right \in access

\* auth_write(hostname, username, data, data_type, metadata) on channel c by
\* task t, for a client to whom check_access gives `access`: Forbidden
\* without the WRITE right, else write_from_dbr.
auth_write(t, c, access, data, data_type, mv) ==
    LET base == [IdleTask EXCEPT !.op = "auth_write", !.ch = c,
                                 !.pre = Snapshot(c), !.call = clock',
                                 !.dbr = data_type, !.access = access]
    IN /\ Free(t)
       /\ IF ~granted(access, "WRITE")
          THEN /\ task' = [task EXCEPT ![t] =
                             [base EXCEPT !.pc = "done", !.result = "Forbidden"]]
               /\ UNCHANGED <<chan, alarm, content>>
          ELSE write_from_dbr(t, c, base, data, data_type, mv)
       /\ UNCHANGED <<subs, keys, hist>>

\* ChannelData.read(data_type) for STSACK_STRING: the alarm's read.
alarm_read(al) ==
    [status |-> al.status, severity |-> al.severity,
     ackt |-> IF al.must_acknowledge_transient THEN 1 ELSE 0,
     acks |-> al.severity_to_acknowledge]

\* auth_read(hostname, username, data_type) on channel c by task t:
\* Forbidden without the READ right, else read(data_type); the coroutine
\* does not suspend.
auth_read(t, c, access, data_type) ==
    LET base == [IdleTask EXCEPT !.op = "auth_read", !.ch = c, !.pc = "done",
                                 !.pre = Snapshot(c), !.call = clock',
                                 !.dbr = data_type, !.access = access]
        r == read(chan[c], alarm[chan[c].alarm], data_type)
    IN /\ Free(t)
       /\ task' = [task EXCEPT ![t] =
                     IF ~granted(access, "READ")
                     THEN [base EXCEPT !.result = "Forbidden"]
                     ELSE IF data_type = "STSACK_STRING"
                     THEN [base EXCEPT !.ret =
                              [md |-> alarm_read(alarm[chan[c].alarm]),
                               values |-> NoMetadata]]
                     ELSE [base EXCEPT !.ret = [md |-> r.md, values |-> r.values]]]
       /\ UNCHANGED <<chan, alarm, subs, keys, content, hist>>

\* await channel.verify_value(data) on the numeric channel c by task t: it
\* raises CannotExceedLimits or stages the status and severity of the limit
\* check on the channel (the status and severity setters); the coroutine
\* does not suspend.
CallVerifyValue(t, c, data) ==
    LET vv == verify_value(chan[c].lim, data)
    IN /\ Free(t)
       /\ task' = [task EXCEPT ![t] =
                     [IdleTask EXCEPT !.op = "verify_value", !.ch = c,
                                      !.pc = "done", !.call = clock',
                                      !.arg = data, !.result = vv.exc]]
       /\ chan' = [chan EXCEPT ![c] =
                     IF vv.staged
                     THEN [@ EXCEPT !._status = vv.status, !._severity = vv.severity]
                     ELSE @]
       /\ UNCHANGED <<alarm, subs, keys, content, hist>>

\* ------------------------------------------------------------- ChannelEnum
\* Python values handed to an enum channel: an int n, a str s, the float
\* n + 0.5.
PyInt(n) == [t |-> "int", n |-> n, s |-> ""]
PyStr(s) == [t |-> "str", n |-> 0, s |-> s]
PyFloat(n) == [t |-> "float", n |-> n, s |-> ""]

\* tuple.__getitem__(key) on the tuple of strings E: an int from 0 counts
\* from the front, a negative int from the back, an int beyond either end
\* raises IndexError, a key that is no int raises TypeError.
tuple_getitem(E, key) ==
    IF key.t # "int" THEN [exc |-> "TypeError", value |-> key]
    ELSE IF 0 <= key.n /\ key.n < Len(E)
    THEN [exc |-> "none", value |-> PyStr(E[key.n + 1])]
    ELSE IF -Len(E) <= key.n /\ key.n < 0
    THEN [exc |-> "none", value |-> PyStr(E[Len(E) + key.n + 1])]
    ELSE [exc |-> "IndexError", value |-> key]

\* A verify_value that hands every value on as it is.
ChannelEnum_verify_value_identity(E, data) == data

\* ChannelEnum.verify_value: enum_strings[data], or data itself when the
\* lookup raises IndexError or TypeError.
ChannelEnum_verify_value(E, data) ==
    LET r == tuple_getitem(E, data)
    IN IF r.exc = "none" THEN r.value ELSE data

\* ChannelEnum.get_raw_value: tuple.index(value), the first position that
\* holds value, or None.
get_raw_value(E, value) ==
    IF value.t = "str" /\ \E i \in 1..Len(E) : E[i] = value.s
    THEN (CHOOSE i \in 1..Len(E) :
              E[i] = value.s /\ \A j \in 1..(i - 1) : E[j] # value.s) - 1
    ELSE NoneInt

\* ChannelEnum.raw_value
raw_value(ch) == get_raw_value(ch.enum_strings, ch.value)

\* ChannelEnum(value=value, enum_strings=E, alarm=a): the fields of
\* ChannelData and the table of strings.
NewEnumChannel(value, E, a) ==
    [value |-> value,
     timestamp |-> 0,
     max_length |-> 1,
     enum_strings |-> E,
     alarm |-> a,
     _status |-> NoneStr,
     _severity |-> NoneInt,
     _snapshots |-> [st \in States |-> [m \in Modes |-> NoSnap]],
     _fill_at_next_write |-> <<>>]

\* ChannelEnum.write(data) on the enum channel c by task t, data an int, a
\* str or a float: preprocess_value leaves such a value as it is
\* (max_length is 1), verify_value never raises and stages no alarm, the
\* write commits with the flags DBE_LOG | DBE_VALUE.
EnumWrite(t, c, data) ==
    LET ch0 == chan[c]
        modified_value == ChannelEnum_verify_value(ch0.enum_strings, data)
        base == [IdleTask EXCEPT !.op = "write", !.ch = c, !.pre = Snapshot(c),
                                 !.arg = data, !.call = clock']
    IN /\ Free(t)
       /\ WriteCommittedFlags(t, c, base, ch0, modified_value, NoMd, clock',
                              {DBE_LOG, DBE_VALUE})
       /\ UNCHANGED <<subs, keys, hist>>

\* ------------------------------------------------------------------- units
\* ChannelData(value=value, alarm=a): a channel of the base class, whose
\* _data holds value and timestamp and no units.
NewPlainChannel(value, a) ==
    [value |-> value,
     timestamp |-> 0,
     max_length |-> 1,
     alarm |-> a,
     _status |-> NoneStr,
     _severity |-> NoneInt,
     _snapshots |-> [st \in States |-> [m \in Modes |-> NoSnap]],
     _fill_at_next_write |-> <<>>]

\* ChannelNumeric.__init__ with units=units: _data['units'] = units.
WithUnits(ch, units) == ch @@ [units |-> units]

\* kw in data, for kw = 'units'
has_units_entry(ch) == "units" \in DOMAIN ch

\* The graphic wire types read here and their native types; of their
\* metadata records DBR_GR_DOUBLE has a units field, DBR_GR_STRING has none.
GrTypes == {"GR_DOUBLE", "GR_STRING"}
gr_native_type(T) == IF T = "GR_DOUBLE" THEN "DOUBLE" ELSE "STRING"
has_units_field(T) == T = "GR_DOUBLE"

\* str.encode(string_encoding): the bytes of the string.
encode(s) == [bytes |-> s]

\* The units argument of write_metadata: None, a str, or a list of one str.
NoUnits == Sc(NoneStr)

\* `value, = value` with the TypeError and ValueError passed over: a list of
\* one element is unpacked, a str stays (a str of one character unpacks to
\* itself).
unpack(value) == IF value.arr /\ Len(value.e) = 1 THEN Sc(value.e[1]) ELSE value

\* A write_metadata that stores the units on every channel.
store_units_always(ch, units) ==
    IF units # NoUnits THEN WithUnits([f \in DOMAIN ch \ {"units"} |-> ch[f]],
                                      unpack(units).e[1])
    ELSE ch

\* The loop of write_metadata for kw = 'units': stored when given and when
\* the channel's _data has a units entry.
store_units(ch, units) ==
    IF units # NoUnits /\ has_units_entry(ch)
    THEN [ch EXCEPT !.units = unpack(units).e[1]]
    ELSE ch

\* write_metadata(publish=publish, units=units) on channel c by task t.
WriteMetadataUnits(t, c, publish, units) ==
    LET chan1 == [chan EXCEPT ![c] = store_units(@, units)]
        jobs == IF publish THEN <<[c |-> c, flags |-> {DBE_PROPERTY}]>> ELSE <<>>
        r == Run(chan1, alarm, subs, content,
                 [IdleTask EXCEPT !.op = "write_metadata", !.ch = c,
                                  !.pre = Snapshot(c), !.pubs = jobs,
                                  !.arg = units, !.call = clock'])
    IN /\ Free(t)
       /\ chan' = chan1
       /\ content' = r.content
       /\ task' = [task EXCEPT ![t] = r.task]
       /\ UNCHANGED <<alarm, subs, keys, hist>>

\* _read_metadata for a graphic type: the units, encoded, '' when _data has
\* no units entry (precision and the limits are left out).
read_metadata_units(ch) ==
    IF has_units_entry(ch) THEN encode(ch.units) ELSE encode("")

\* read(data_type) of a graphic type on channel c by task t: the converted
\* value, and a metadata record filled by _read_metadata and with the
\* alarm's status and severity; the coroutine does not suspend.
ReadGr(t, c, data_type) ==
    LET ch == chan[c]
        al == alarm[ch.alarm]
        sts == [k |-> "gr", status |-> al.status, severity |-> al.severity]
        md == IF has_units_field(data_type)
              THEN sts @@ [units |-> read_metadata_units(ch)]
              ELSE sts
    IN /\ Free(t)
       /\ task' = [task EXCEPT ![t] =
                     [IdleTask EXCEPT !.op = "read", !.ch = c, !.pc = "done",
                                      !.pre = Snapshot(c), !.call = clock',
                                      !.dbr = data_type,
                                      !.ret = [md |-> md,
                                               values |-> convert_values(
                                                   ch.value,
                                                   gr_native_type(data_type))]]]
       /\ UNCHANGED <<chan, alarm, subs, keys, content, hist>>

\* ------------------------------------------------------------ alarm setter
\* ChannelAlarm.connect: self._channels.add(channel_data)
connect(al, c) == [al EXCEPT !.channels = @ \cup {c}]

\* A disconnect that leaves the channel in the set.
disconnect_keeps(al, c) == al

\* ChannelAlarm.disconnect: self._channels.remove(channel_data)
disconnect(al, c) == [al EXCEPT !.channels = @ \ {c}]

\* WeakSet.remove raises KeyError when the element is not in the set.
remove_raises(al, c) == IF c \in al.channels THEN "none" ELSE "KeyError"

\* channel.alarm = a, called by task t: nothing when a is the alarm the
\* channel has; else old_alarm.disconnect(self), self._alarm = a,
\* a.connect(self).  The setter has no suspension point; a KeyError of
\* disconnect ends it before the assignment.
SetAlarm(t, c, a) ==
    LET old == chan[c].alarm
        exc == IF old = a THEN "none" ELSE remove_raises(alarm[old], c)
    IN /\ Free(t)
       /\ IF old = a \/ exc # "none"
          THEN UNCHANGED <<chan, alarm>>
          ELSE /\ chan' = [chan EXCEPT ![c].alarm = a]
               /\ alarm' = [alarm EXCEPT ![old] = disconnect(@, c),
                                         ![a] = connect(@, c)]
       /\ task' = [task EXCEPT ![t] = [IdleTask EXCEPT !.op = "set_alarm",
                                                       !.pc = "done",
                                                       !.ch = c,
                                                       !.result = exc]]
       /\ UNCHANGED <<subs, keys, content, hist>>

\* alarm.connect(channel) called directly by task t; pre keeps the alarm and
\* the set as it was.
CallConnect(t, a, c) ==
    /\ Free(t)
    /\ alarm' = [alarm EXCEPT ![a] = connect(@, c)]
    /\ task' = [task EXCEPT ![t] =
                  [IdleTask EXCEPT !.op = "connect", !.pc = "done", !.ch = c,
                                   !.pre = [k |-> "attach", a |-> a,
                                            channels |-> alarm[a].channels]]]
    /\ UNCHANGED <<chan, subs, keys, content, hist>>

\* alarm.disconnect(channel) called directly by task t.
CallDisconnect(t, a, c) ==
    /\ Free(t)
    /\ alarm' = [alarm EXCEPT ![a] = disconnect(@, c)]
    /\ task' = [task EXCEPT ![t] =
                  [IdleTask EXCEPT !.op = "disconnect", !.pc = "done", !.ch = c,
                                   !.result = remove_raises(alarm[a], c),
                                   !.pre = [k |-> "attach", a |-> a,
                                            channels |-> alarm[a].channels]]]
    /\ UNCHANGED <<chan, subs, keys, content, hist>>

\* ------------------------------------------------------------ sync filters
\* pre_state_change(state, new_value) on channel c, called by task t: the
\* snapshots of the state are cleared and a copy of the channel is stored
\* under before (new_value true) or last.
pre_state_change(t, c, state, new_value) ==
    LET snapshot == deepcopy(chan[c], alarm[chan[c].alarm])
    IN /\ Free(t)
       /\ chan' = [chan EXCEPT ![c]._snapshots[state] =
                     [m \in Modes |->
                        IF m = (IF new_value THEN "before" ELSE "last")
                        THEN snapshot ELSE NoSnap]]
       /\ task' = [task EXCEPT ![t] =
                     [IdleTask EXCEPT !.op = "pre_state_change", !.pc = "done",
                                      !.ch = c, !.state = state,
                                      !.new_value = new_value]]
       /\ UNCHANGED <<alarm, subs, keys, content, hist>>

\* A post_state_change that queues nothing for the next write.
post_state_change_no_queue(t, c, state, new_value) ==
    /\ task[t].op = "pre_state_change" /\ task[t].pc = "done"
    /\ task[t].ch = c /\ task[t].state = state /\ task[t].new_value = new_value
    /\ chan' = [chan EXCEPT
                  ![c]._snapshots[state][IF new_value THEN "while" ELSE "unless"] =
                      Live]
    /\ task' = [task EXCEPT ![t] =
                  [IdleTask EXCEPT !.op = "post_state_change", !.pc = "done",
                                   !.ch = c, !.state = state,
                                   !.new_value = new_value]]
    /\ UNCHANGED <<alarm, subs, keys, content, hist>>

\* post_state_change(state, new_value) on channel c, called by task t when
\* the server leaves the StateUpdateContext it entered with the
\* pre_state_change of the same arguments: the channel itself is stored
\* under while (new_value true) or unless, and after or first is queued to
\* be filled at the next write.
post_state_change(t, c, state, new_value) ==
    /\ task[t].op = "pre_state_change" /\ task[t].pc = "done"
    /\ task[t].ch = c /\ task[t].state = state /\ task[t].new_value = new_value
    /\ chan' = [chan EXCEPT
                  ![c]._snapshots[state][IF new_value THEN "while" ELSE "unless"] =
                      Live,
                  ![c]._fill_at_next_write =
                      Append(@, <<state, IF new_value THEN "after" ELSE "first">>)]
    /\ task' = [task EXCEPT ![t] =
                  [IdleTask EXCEPT !.op = "post_state_change", !.pc = "done",
                                   !.ch = c, !.state = state,
                                   !.new_value = new_value]]
    /\ UNCHANGED <<alarm, subs, keys, content, hist>>

\* ------------------------------------------------------- callback executor
\* _CallbackExecutor.  self.callbacks is an AsyncioQueue, here queue q1,
\* holding the (callback, args, kwargs) submitted; task 1 is the coroutine
\* _callback_loop that __init__ creates.  The record of the loop keeps in
\* hooks the callbacks it took, in order, each with how it ended.
CallbackQueue == "q1"
\* inspect.iscoroutinefunction(callback) or not.
CallbackKinds == {"coroutine", "function"}
Callback(id, kind) ==
    [k |-> "callback", id |-> id, coroutine |-> kind = "coroutine"]
\* How an awaited coroutine callback ends: it returns, raises an Exception,
\* or raises asyncio.CancelledError, which is a BaseException.
CallbackOutcomes == {"return", "Exception", "CancelledError"}

\* A loop without a try statement around the callback.
LoopExceptNone(exc) == "raise"

\* `except Exception: self.log.exception('Callback failure')` around the
\* awaited callback: an Exception is logged, another BaseException leaves
\* the loop.
LoopExcept(exc) == IF exc = "Exception" THEN "log" ELSE "raise"

\* _CallbackExecutor.__init__: an empty queue, the loop created and
\* suspended in its first async_get.
LoopTask == [IdleTask EXCEPT !.op = "_callback_loop", !.pc = "get"]

\* submit(callback, *args, **kwargs): self.callbacks.put(...), the
\* put_nowait of an unbounded asyncio.Queue.
submit(cb) ==
    /\ queue' = [queue EXCEPT ![CallbackQueue] = Append(@, cb)]
    /\ UNCHANGED <<chan, alarm, subs, keys, content, task, hist>>

\* The loop of task t resumes in `await self.callbacks.async_get()` with
\* the oldest item.  A coroutine function is called and awaited; any other
\* callback is handed to loop.run_in_executor and the loop goes on to its
\* next async_get.
async_get(t) ==
    LET tk == task[t]
        cb == Head(queue[CallbackQueue])
    IN /\ tk.op = "_callback_loop" /\ tk.pc = "get"
       /\ queue[CallbackQueue] # <<>>
       /\ queue' = [queue EXCEPT ![CallbackQueue] = Tail(@)]
       /\ task' = [task EXCEPT ![t] =
                     [tk EXCEPT
                        !.pc = IF cb.coroutine THEN "callback" ELSE "get",
                        !.hooks = Append(@, [hook |-> "callback", arg |-> cb,
                                             ret |-> IF cb.coroutine
                                                     THEN "running"
                                                     ELSE "executor"])]]
       /\ UNCHANGED <<chan, alarm, subs, keys, content, clock, hist>>

\* The coroutine callback the loop of task t awaits ends with outcome out:
\* the loop goes on to its next async_get, or the exception ends it.
CallbackEnds(t, out) ==
    LET tk == task[t]
        log == [tk.hooks EXCEPT ![Len(tk.hooks)].ret = out]
    IN /\ tk.op = "_callback_loop" /\ tk.pc = "callback"
       /\ task' = [task EXCEPT ![t] =
                     IF out = "return" \/ LoopExcept(out) = "log"
                     THEN [tk EXCEPT !.pc = "get", !.hooks = log]
                     ELSE [tk EXCEPT !.pc = "done", !.result = out,
                                     !.hooks = log]]
       /\ UNCHANGED <<chan, alarm, subs, keys, content, queue, clock, hist>>

\* shutdown(): self.tasks.cancel_all() cancels the loop of task t where it
\* is suspended, in async_get or in the callback it awaits; no except
\* clause of the loop catches the CancelledError.
shutdown(t) ==
    LET tk == task[t]
    IN /\ tk.op = "_callback_loop" /\ tk.pc \in {"get", "callback"}
       /\ task' = [task EXCEPT ![t] =
                     [tk EXCEPT
                        !.pc = "done", !.result = "CancelledError",
                        !.hook = "cancel",
                        !.hooks = IF tk.pc = "callback"
                                  THEN [@ EXCEPT ![Len(@)].ret = "CancelledError"]
                                  ELSE @]]
       /\ UNCHANGED <<chan, alarm, subs, keys, content, queue, clock, hist>>

\* ---------------------------------------------------------- specifications
\* The environment starts one more operation; time moves on.
Budget == clock < MaxOps /\ clock' = clock + 1

\* The server's subscription loop has taken every update off the queues
\* before the caller starts its next operation.
Consumed == queue' = [q \in Queues |-> <<>>]

\* Values written: in range, HIGH, HIHI, beyond the control limit; an empty
\* list, a one-element list, a full list, a list one too long.
RawValues ==
    {Sc(1), Sc(6), Sc(11), Sc(20), Arr(<<>>), Arr(<<6>>),
     Arr([i \in 1..MaxLen |-> 6]), Arr([i \in 1..(MaxLen + 1) |-> 6])}
\* (value, what the update_fields hook does): the hook raises on one value.
WriteInputs == {<<raw, "ok">> : raw \in RawValues} \cup {<<Sc(6), "error">>}
MdInputs ==
    {[NoMd EXCEPT !.timestamp = 0], [NoMd EXCEPT !.severity = MINOR_ALARM]}
AlarmInputsSeq == {[NoArgs EXCEPT !.severity = MAJOR_ALARM]}

\* Operations called one after the other, each awaited to its end.
Next ==
    \/ \E w \in WriteInputs :
          AllFree /\ Budget /\ Consumed /\ StartWrite(1, "A", w[1], w[2], NoMd)
    \/ \E q \in Queues, s \in SpecIds :
          AllFree /\ Budget /\ Consumed /\ StartSubscribe(1, "A", q, s)
    \/ \E publish \in BOOLEAN, md \in MdInputs :
          AllFree /\ Budget /\ Consumed /\ StartWriteMetadata(1, "A", publish, md)
    \/ \E p \in AlarmInputsSeq, publish \in BOOLEAN :
          AllFree /\ Budget /\ Consumed
          /\ StartAlarmWrite(1, chan["A"].alarm, p, publish)
    \/ \E a \in Alarms : AllFree /\ Budget /\ Consumed /\ SetAlarm(1, "A", a)
    \/ Put(1)

Spec == Init /\ [][Next]_vars

\* Coroutines interleaved at their suspension points: two tasks subscribe
\* and write while the other is suspended in queue.put; the queues keep
\* every update.
NextConc ==
    \/ \E t \in Tasks, raw \in {Sc(1), Sc(6)} :
          Budget /\ UNCHANGED queue /\ StartWrite(t, "A", raw, "ok", NoMd)
    \/ \E t \in Tasks, q \in Queues, s \in SpecIds :
          Budget /\ UNCHANGED queue /\ StartSubscribe(t, "A", q, s)
    \/ \E t \in Tasks : Put(t)

SpecConc == Init /\ [][NextConc]_vars

\* The state after the subscribe calls on channel A of Init that leave the
\* registry reg, with the initial updates taken off the queues.
Subscribed(reg) ==
    LET A0 == NewChannel(1, Sc(1), S1Limits, "a1")
    IN /\ chan = [c \in Channels |->
                    IF c = "A" THEN A0 ELSE NewChannel(1, Sc(1), S1Limits, "a2")]
       /\ alarm = [a \in Alarms |->
                     [NewAlarm EXCEPT !.channels = IF a = "a1" THEN {"A"} ELSE {"B"}]]
       /\ subs = [c \in Channels |-> IF c = "A" THEN reg ELSE [g \in Groups |-> {}]]
       /\ keys = [c \in Channels |-> KeysOf(subs[c])]
       /\ content = [c \in Channels |->
                       IF c = "A"
                       THEN [key \in CacheKeys |->
                               IF key[1] = "name"
                                  /\ \E g \in Groups : g[2] = key[2] /\ reg[g] # {}
                               THEN SubscribeEntry(EmptyContent, A0, NewAlarm, key[2])
                               ELSE NoEntry]
                       ELSE EmptyContent]
       /\ queue = [q \in Queues |-> <<>>]
       /\ task = [t \in Tasks |-> IdleTask]
       /\ clock = 0
       /\ hist = [k |-> "none", a |-> "a1", prior_acks |-> 0, prior_ackt |-> TRUE,
                  prior_severity |-> NO_ALARM_SEV,
                  severity_written |-> FALSE, ack_requested |-> FALSE,
                  acked |-> FALSE, latched |-> 0,
                  rising |-> FALSE, acked_since |-> FALSE]

\* After subscribe(q1, s1) and subscribe(q1, s3).
InitSubscribed ==
    Subscribed([g \in Groups |->
                  IF g = <<"q1", "TIME_DOUBLE", NoneStr>> THEN {"s1"}
                  ELSE IF g = <<"q1", "FLOAT", NoneStr>> THEN {"s3"}
                  ELSE {}])

\* Writes whose update_fields hook suspends: two tasks write to the
\* subscribed channel, each write waits in its hook until the hook returns,
\* raises, skips or the task is cancelled; tasks suspended in queue.put
\* resume or are cancelled.  The queues keep every update.  A coroutine
\* runs as task 1 unless task 1 is busy.
NextHook ==
    \/ \E t \in Tasks, raw \in {Sc(1), Sc(6)} :
          /\ t = 2 => ~Free(1)
          /\ clock < MaxWrites /\ clock' = clock + 1
          /\ UNCHANGED queue /\ WriteToHook(t, "A", raw)
    \/ \E t \in Tasks, out \in HookOutcomes : HookReturns(t, out)
    \/ \E t \in Tasks : Put(t)
    \/ \E t \in Tasks : Cancel(t)

SpecHook == InitSubscribed /\ [][NextHook]_vars

\* After subscribe(q1, sb) and subscribe(q1, sa), the specs with sync
\* filters (S, before) and (S, after), and subscribe(q2, s1).
InitSync ==
    Subscribed([g \in Groups |->
                  IF g = <<"q1", "TIME_DOUBLE", "before">> THEN {"sb"}
                  ELSE IF g = <<"q1", "TIME_DOUBLE", "after">> THEN {"sa"}
                  ELSE IF g = <<"q2", "TIME_DOUBLE", NoneStr>> THEN {"s1"}
                  ELSE {}])

\* State changes, writes, metadata writes and alarm writes on the channel
\* with sync subscribers, called one after the other.
BudgetSync == clock < MaxSyncOps /\ clock' = clock + 1

NextSync ==
    \/ \E st \in States, nv \in BOOLEAN :
          AllFree /\ BudgetSync /\ Consumed /\ pre_state_change(1, "A", st, nv)
    \/ \E st \in States, nv \in BOOLEAN :
          AllFree /\ BudgetSync /\ Consumed /\ post_state_change(1, "A", st, nv)
    \/ \E raw \in {Sc(1), Sc(6)} :
          AllFree /\ BudgetSync /\ Consumed /\ StartWrite(1, "A", raw, "ok", NoMd)
    \/ \E md \in MdInputs :
          AllFree /\ BudgetSync /\ Consumed /\ StartWriteMetadata(1, "A", TRUE, md)
    \/ \E p \in AlarmInputsSeq :
          AllFree /\ BudgetSync /\ Consumed /\ StartAlarmWrite(1, "a1", p, TRUE)
    \/ Put(1)

SpecSync == InitSync /\ [][NextSync]_vars

\* The attachment registry called directly: connect and disconnect of any
\* channel on any alarm, and the alarm setter, one call after the other.
NextAttach ==
    \/ \E a \in Alarms, c \in Channels :
          AllFree /\ Budget /\ UNCHANGED queue /\ CallConnect(1, a, c)
    \/ \E a \in Alarms, c \in Channels :
          AllFree /\ Budget /\ UNCHANGED queue /\ CallDisconnect(1, a, c)
    \/ \E a \in Alarms, c \in Channels :
          AllFree /\ Budget /\ UNCHANGED queue /\ SetAlarm(1, c, a)

SpecAttach == Init /\ [][NextAttach]_vars

\* Requests of clients on the subscribed channel, one after the other:
\* auth_write with each data type and auth_read, for clients with every
\* combination of rights.
PutInputs ==
    {<<"DOUBLE", [dtype |-> "DOUBLE", e |-> <<v>>], 0>> : v \in {1, 6, 11}}
    \cup {<<"PUT_ACKS", [dtype |-> "PUT_ACKS", e |-> <<>>], sv>> : sv \in {0, 1, 2}}
    \cup {<<"PUT_ACKT", [dtype |-> "PUT_ACKT", e |-> <<>>], b>> : b \in {0, 1}}
    \cup {<<T, [dtype |-> T, e |-> <<6>>], 0>> : T \in {"STSACK_STRING", "CLASS_NAME"}}

NextAuth ==
    \/ \E access \in AccessRights, i \in PutInputs :
          AllFree /\ Budget /\ Consumed /\ auth_write(1, "A", access, i[2], i[1], i[3])
    \/ \E access \in AccessRights, T \in WireTypes \cup {"STSACK_STRING"} :
          AllFree /\ Budget /\ Consumed /\ auth_read(1, "A", access, T)
    \/ Put(1)

SpecAuth == InitSubscribed /\ [][NextAuth]_vars

\* The limit check alone: numeric channels with every kind of limit
\* configuration (the limits of S1; alarm limits that coincide; warning
\* limits that coincide; warning limits equal to the alarm limits; no
\* limits at all), and verify_value called with scalars on, next to and
\* beyond every limit and with lists.
LimitConfigs ==
    {S1Limits,
     [S1Limits EXCEPT !.lower_alarm_limit = 0, !.upper_alarm_limit = 0],
     [S1Limits EXCEPT !.lower_warning_limit = 0, !.upper_warning_limit = 0],
     [S1Limits EXCEPT !.lower_warning_limit = -10, !.upper_warning_limit = 10],
     [S1Limits EXCEPT !.lower_ctrl_limit = 0, !.upper_ctrl_limit = 0,
                      !.lower_alarm_limit = 5, !.upper_alarm_limit = 5,
                      !.lower_warning_limit = 5, !.upper_warning_limit = 5]}

LimitValues == {-20, -15, -11, -10, -6, -5, -1, 0, 1, 5, 6, 10, 11, 15, 20}

InitLimits ==
    /\ \E lim \in LimitConfigs :
          chan = [c \in Channels |->
                    IF c = "A" THEN NewChannel(1, Sc(1), lim, "a1")
                    ELSE NewChannel(1, Sc(1), S1Limits, "a2")]
    /\ alarm = [a \in Alarms |->
                  [NewAlarm EXCEPT !.channels = IF a = "a1" THEN {"A"} ELSE {"B"}]]
    /\ subs = [c \in Channels |-> [g \in Groups |-> {}]]
    /\ keys = [c \in Channels |-> {}]
    /\ content = [c \in Channels |-> EmptyContent]
    /\ queue = [q \in Queues |-> <<>>]
    /\ task = [t \in Tasks |-> IdleTask]
    /\ clock = 0
    /\ hist = [k |-> "none", a |-> "a1", prior_acks |-> 0, prior_ackt |-> TRUE,
               prior_severity |-> NO_ALARM_SEV,
               severity_written |-> FALSE, ack_requested |-> FALSE,
               acked |-> FALSE, latched |-> 0,
               rising |-> FALSE, acked_since |-> FALSE]

NextLimits ==
    \E data \in {Sc(v) : v \in LimitValues}
                \cup {Arr(<<v>>) : v \in {6, 20}} \cup {Arr(<<6, 20>>)} :
        AllFree /\ Budget /\ UNCHANGED queue /\ CallVerifyValue(1, "A", data)

SpecLimits == InitLimits /\ [][NextLimits]_vars

\* An enum channel alone: tables of three strings, of two equal strings, of
\* one string and of none; written are strings in and not in the tables,
\* ints inside and on both sides outside the range of indices, and floats.
EnumTables ==
    {<<"off", "on", "tripped">>, <<"on", "on">>, <<"off">>, <<>>}

EnumInputs ==
    {PyStr(s) : s \in {"off", "on", "tripped", "unknown"}}
    \cup {PyInt(n) : n \in -4..3} \cup {PyFloat(n) : n \in {0, 1}}

InitEnum ==
    /\ \E E \in EnumTables :
          chan = [c \in Channels |->
                    IF c = "A"
                    THEN NewEnumChannel(IF E = <<>> THEN PyInt(0) ELSE PyStr(E[1]),
                                        E, "a1")
                    ELSE NewChannel(1, Sc(1), S1Limits, "a2")]
    /\ alarm = [a \in Alarms |->
                  [NewAlarm EXCEPT !.channels = IF a = "a1" THEN {"A"} ELSE {"B"}]]
    /\ subs = [c \in Channels |-> [g \in Groups |-> {}]]
    /\ keys = [c \in Channels |-> {}]
    /\ content = [c \in Channels |-> EmptyContent]
    /\ queue = [q \in Queues |-> <<>>]
    /\ task = [t \in Tasks |-> IdleTask]
    /\ clock = 0
    /\ hist = [k |-> "none", a |-> "a1", prior_acks |-> 0, prior_ackt |-> TRUE,
               prior_severity |-> NO_ALARM_SEV,
               severity_written |-> FALSE, ack_requested |-> FALSE,
               acked |-> FALSE, latched |-> 0,
               rising |-> FALSE, acked_since |-> FALSE]

NextEnum ==
    \E data \in EnumInputs :
        AllFree /\ Budget /\ UNCHANGED queue /\ EnumWrite(1, "A", data)

SpecEnum == InitEnum /\ [][NextEnum]_vars

\* Units written and read back: a numeric channel (created with a units
\* entry) or a channel of the base class (without one); write_metadata,
\* run as task 2, is given no units, a str or a list of one str; the reads
\* of the graphic types run as task 1.
UnitsInputs == {NoUnits, Sc("mm"), Sc("V"), Arr(<<"mm">>)}

InitUnits ==
    /\ \E A0 \in {WithUnits(NewChannel(1, Sc(1), S1Limits, "a1"), ""),
                  NewPlainChannel(Sc(1), "a1")} :
          chan = [c \in Channels |->
                    IF c = "A" THEN A0 ELSE NewChannel(1, Sc(1), S1Limits, "a2")]
    /\ alarm = [a \in Alarms |->
                  [NewAlarm EXCEPT !.channels = IF a = "a1" THEN {"A"} ELSE {"B"}]]
    /\ subs = [c \in Channels |-> [g \in Groups |-> {}]]
    /\ keys = [c \in Channels |-> {}]
    /\ content = [c \in Channels |-> EmptyContent]
    /\ queue = [q \in Queues |-> <<>>]
    /\ task = [t \in Tasks |-> IdleTask]
    /\ clock = 0
    /\ hist = [k |-> "none", a |-> "a1", prior_acks |-> 0, prior_ackt |-> TRUE,
               prior_severity |-> NO_ALARM_SEV,
               severity_written |-> FALSE, ack_requested |-> FALSE,
               acked |-> FALSE, latched |-> 0,
               rising |-> FALSE, acked_since |-> FALSE]

NextUnits ==
    \/ \E publish \in BOOLEAN, units \in UnitsInputs :
          AllFree /\ Budget /\ UNCHANGED queue
          /\ WriteMetadataUnits(2, "A", publish, units)
    \/ \E T \in GrTypes :
          AllFree /\ Budget /\ UNCHANGED queue /\ ReadGr(1, "A", T)

SpecUnits == InitUnits /\ [][NextUnits]_vars

\* Writes with and without a timestamp among their metadata, one after the
\* other, on a channel without subscribers: values in range, in alarm and
\* beyond the control limit, a hook that raises; the timestamps given lie
\* before, at and after the times of the writes.
StampInputs == {NoMd} \cup {[NoMd EXCEPT !.timestamp = ts] : ts \in {0, 1, 5}}

NextStamp ==
    \E w \in {<<Sc(1), "ok">>, <<Sc(11), "ok">>, <<Sc(20), "ok">>, <<Sc(6), "error">>},
       umd \in StampInputs :
        AllFree /\ Budget /\ Consumed /\ StartWrite(1, "A", w[1], w[2], umd)

SpecStamp == Init /\ [][NextStamp]_vars

\* Alarm writes among publishes: channel A is subscribed for TIME_DOUBLE on
\* both queues, so that every publish suspends twice in queue.put.  Task 1
\* writes values to the channel (in range, HIGH, HIHI), task 2 writes the
\* alarm directly, a status together with its severity, also while task 1
\* is suspended; a free task reads the alarm (STSACK_STRING); suspended
\* tasks resume.  The queues keep every update.
AtomicPairs ==
    {<<"NO_ALARM", NO_ALARM_SEV>>, <<"HIGH", MINOR_ALARM>>, <<"HIHI", MAJOR_ALARM>>}

InitAtomic ==
    Subscribed([g \in Groups |->
                  IF g = <<"q1", "TIME_DOUBLE", NoneStr>> THEN {"s1"}
                  ELSE IF g = <<"q2", "TIME_DOUBLE", NoneStr>> THEN {"s2"}
                  ELSE {}])

NextAtomic ==
    \/ \E raw \in {Sc(1), Sc(6), Sc(11)} :
          /\ Budget
          /\ UNCHANGED queue /\ StartWrite(1, "A", raw, "ok", NoMd)
    \/ \E p \in AtomicPairs :
          /\ Budget
          /\ UNCHANGED queue
          /\ StartAlarmWrite(2, "a1",
                             [NoArgs EXCEPT !.status = p[1], !.severity = p[2]], TRUE)
    \/ \E t \in Tasks :
          /\ t = 2 => ~Free(1)
          /\ Budget
          /\ UNCHANGED queue /\ auth_read(t, "A", {"READ"}, "STSACK_STRING")
    \/ \E t \in Tasks : Put(t)

SpecAtomic == InitAtomic /\ [][NextAtomic]_vars

\* Two channels on one alarm: A and B are both attached to a1 and both
\* subscribed for TIME_DOUBLE on queue q1 (A with spec s1, B with s2), the
\* initial updates taken off the queue.  Values are written to A, in range
\* and in alarm, without metadata or with a status or severity among them;
\* the suspended write resumes.
SharedReg(s) ==
    [g \in Groups |-> IF g = <<"q1", "TIME_DOUBLE", NoneStr>> THEN {s} ELSE {}]

InitShared ==
    LET A0 == NewChannel(1, Sc(1), S1Limits, "a1")
        entry == [key \in CacheKeys |->
                    IF key = <<"name", "TIME_DOUBLE">>
                    THEN SubscribeEntry(EmptyContent, A0, NewAlarm, "TIME_DOUBLE")
                    ELSE NoEntry]
    IN /\ chan = [c \in Channels |-> A0]
       /\ alarm = [a \in Alarms |->
                     [NewAlarm EXCEPT !.channels = IF a = "a1" THEN {"A", "B"} ELSE {}]]
       /\ subs = [c \in Channels |-> SharedReg(IF c = "A" THEN "s1" ELSE "s2")]
       /\ keys = [c \in Channels |-> KeysOf(subs[c])]
       /\ content = [c \in Channels |-> entry]
       /\ queue = [q \in Queues |-> <<>>]
       /\ task = [t \in Tasks |-> IdleTask]
       /\ clock = 0
       /\ hist = [k |-> "none", a |-> "a1", prior_acks |-> 0, prior_ackt |-> TRUE,
                  prior_severity |-> NO_ALARM_SEV,
                  severity_written |-> FALSE, ack_requested |-> FALSE,
                  acked |-> FALSE, latched |-> 0,
                  rising |-> FALSE, acked_since |-> FALSE]

SharedMdInputs ==
    {NoMd, [NoMd EXCEPT !.severity = MINOR_ALARM], [NoMd EXCEPT !.status = "HIGH"]}

NextShared ==
    \/ \E raw \in {Sc(1), Sc(6), Sc(11)}, umd \in SharedMdInputs :
          AllFree /\ Budget /\ Consumed /\ StartWrite(1, "A", raw, "ok", umd)
    \/ Put(1)

SpecShared == InitShared /\ [][NextShared]_vars

\* Writes to the subscribed channel of a class with both hooks, one after
\* the other: values in range, in alarm and beyond the control limit, an
\* empty list; every outcome of either hook.
NextSkip ==
    \/ \E raw \in {Sc(1), Sc(6), Sc(20), Arr(<<>>)},
          vv_out \in VerifyOutcomes, uf_out \in UpdateOutcomes :
          AllFree /\ Budget /\ Consumed /\ WriteWithHooks(1, "A", raw, vv_out, uf_out)
    \/ Put(1)

SpecSkip == InitSubscribed /\ [][NextSkip]_vars

\* Unsubscribing among publishes: channel A is subscribed for TIME_DOUBLE on
\* queue q1 by specs s1 and s2 and for FLOAT by s3; two tasks write and
\* unsubscribe, subscribed specs and specs never subscribed, while the other
\* is suspended in queue.put.  The queues keep every update.
InitUnsub ==
    Subscribed([g \in Groups |->
                  IF g = <<"q1", "TIME_DOUBLE", NoneStr>> THEN {"s1", "s2"}
                  ELSE IF g = <<"q1", "FLOAT", NoneStr>> THEN {"s3"}
                  ELSE {}])

NextUnsub ==
    \/ \E t \in Tasks :
          Budget /\ UNCHANGED queue /\ StartWrite(t, "A", Sc(6), "ok", NoMd)
    \/ \E t \in Tasks, q \in Queues, s \in SpecIds :
          Budget /\ UNCHANGED queue /\ Unsubscribe(t, "A", q, s)
    \/ \E t \in Tasks : Put(t)

SpecUnsub == InitUnsub /\ [][NextUnsub]_vars

\* Subscribing among publishes: channel A is subscribed for TIME_DOUBLE and
\* FLOAT on queue q1; two tasks write and subscribe while the other is
\* suspended in queue.put.  The queues keep every update.
SpecCache == InitSubscribed /\ [][NextConc]_vars

\* Writes under fair scheduling: two tasks write to the subscribed channel,
\* one while the other is suspended in queue.put; the hook of a write
\* returns or raises at once, and no task is cancelled.  The event loop
\* resumes every coroutine that can go on: a queue.put that is awaited is
\* accepted.  The queues keep every update.
NextLive ==
    \/ \E t \in Tasks, w \in {<<Sc(1), "ok">>, <<Sc(6), "ok">>, <<Sc(6), "error">>} :
          /\ t = 2 => ~Free(1)
          /\ clock < MaxWrites /\ clock' = clock + 1
          /\ UNCHANGED queue /\ StartWrite(t, "A", w[1], w[2], NoMd)
    \/ \E t \in Tasks : Put(t)

SpecLive ==
    /\ InitSubscribed /\ [][NextLive]_vars
    /\ \A t \in Tasks : WF_vars(Put(t))

\* The callback executor under fair scheduling: callbacks of both kinds are
\* submitted, the loop takes them, coroutine callbacks end in every way,
\* and the executor may be shut down at any point.  The event loop resumes
\* the loop when an item is there, and every awaited callback ends.
InitExecutor ==
    /\ chan = [c \in Channels |->
                 NewChannel(1, Sc(1), S1Limits, IF c = "A" THEN "a1" ELSE "a2")]
    /\ alarm = [a \in Alarms |->
                  [NewAlarm EXCEPT !.channels = IF a = "a1" THEN {"A"} ELSE {"B"}]]
    /\ subs = [c \in Channels |-> [g \in Groups |-> {}]]
    /\ keys = [c \in Channels |-> {}]
    /\ content = [c \in Channels |-> EmptyContent]
    /\ queue = [q \in Queues |-> <<>>]
    /\ task = [t \in Tasks |-> IF t = 1 THEN LoopTask ELSE IdleTask]
    /\ clock = 0
    /\ hist = [k |-> "none", a |-> "a1", prior_acks |-> 0, prior_ackt |-> TRUE,
               prior_severity |-> NO_ALARM_SEV,
               severity_written |-> FALSE, ack_requested |-> FALSE,
               acked |-> FALSE, latched |-> 0,
               rising |-> FALSE, acked_since |-> FALSE]

NextExecutor ==
    \/ \E kind \in CallbackKinds :
          /\ clock < MaxCallbacks /\ clock' = clock + 1
          /\ submit(Callback(clock + 1, kind))
    \/ async_get(1)
    \/ \E out \in CallbackOutcomes : CallbackEnds(1, out)
    \/ shutdown(1)

SpecExecutor ==
    /\ InitExecutor /\ [][NextExecutor]_vars
    /\ WF_vars(async_get(1))
    /\ WF_vars(\E out \in CallbackOutcomes : CallbackEnds(1, out))

\* The alarm alone: every combination of arguments of ChannelAlarm.write,
\* call after call, on an alarm whose channel has no subscriber.
AlarmInputs ==
    [status : {NoneStr},
     severity : {NoneInt} \cup Severities,
     must_acknowledge_transient : {NoneStr, "True", "False"},
     severity_to_acknowledge : {NoneInt} \cup Severities,
     alarm_string : {NoneStr}]
    \cup {[NoArgs EXCEPT !.status = "WRITE"], [NoArgs EXCEPT !.alarm_string = "x"]}

NextAlarm ==
    \E p \in AlarmInputs :
        AllFree /\ UNCHANGED <<clock, queue>> /\ StartAlarmWrite(1, "a1", p, TRUE)

SpecAlarm == Init /\ [][NextAlarm]_vars

\* ------------------------------------------------------------------ claims
\* The task of the sequential specification, its channel and its alarm.
T1 == task[1]
Alarm1 == alarm[chan[T1.ch].alarm]
WriteDone == T1.op = "write" /\ T1.pc = "done"

\* The updates put on queue q since the operation of task t started.
Fresh(t, q) == SubSeq(queue[q], task[t].pre.qlen[q] + 1, Len(queue[q]))
\* Those of them that went to group g = (queue, wire type, sync).
GroupUpdates(t, g) ==
    {i \in DOMAIN Fresh(t, g[1]) :
        \A s \in Fresh(t, g[1])[i].sub_specs :
            data_type_name(s) = g[2] /\ sync(s) = g[3]}
\* Group g of channel c got exactly one update since task t started; it
\* lists the group's specs and carries value v and, for a wire type with
\* metadata, the alarm (st, sv).
OneUpdate(t, c, g, v, st, sv) ==
    /\ Cardinality(GroupUpdates(t, g)) = 1
    /\ \A i \in GroupUpdates(t, g) :
          LET u == Fresh(t, g[1])[i]
          IN /\ u.sub_specs = subs[c][g]
             /\ u.sub = NoneStr
             /\ u.values = convert_values(v, native_type(g[2]))
             /\ g[2] \notin native_types =>
                   u.metadata.status = st /\ u.metadata.severity = sv
\* Every subscribed group of channel c got exactly one such update since
\* task t started, and no other group got any.
OneUpdatePerGroup(t, c, v, st, sv) ==
    \A g \in Groups :
        IF subs[c][g] # {} THEN OneUpdate(t, c, g, v, st, sv)
        ELSE GroupUpdates(t, g) = {}
NothingPublished(t) == \A q \in Queues : Fresh(t, q) = <<>>
SomeGroupSubscribed(c) == \E g \in Groups : subs[c][g] # {}

\* C1 (as claimed): every write on a scalar channel that passes verification
\* leaves exactly one update per subscribed group, carrying the written
\* value and the alarm the limit check computes for it.
C1_WriteDeliversLimitAlarm ==
    (WriteDone /\ T1.result = "none" /\ chan[T1.ch].max_length = 1) =>
        LET la == LimitAlarm(chan[T1.ch].lim, T1.arg.e[1])
        IN OneUpdatePerGroup(1, T1.ch, T1.arg, la[1], la[2])

\* The written value is a single number outside differing control limits.
OutsideCtrl(tk) ==
    LET lim == chan[tk.ch].lim
    IN /\ Len(tk.arg.e) = 1
       /\ (~tk.arg.arr) \/ chan[tk.ch].max_length > 1
       /\ lim.lower_ctrl_limit # lim.upper_ctrl_limit
       /\ ~(lim.lower_ctrl_limit <= tk.arg.e[1] /\ tk.arg.e[1] <= lim.upper_ctrl_limit)

\* C2 (as claimed): a write outside the control limits raises
\* CannotExceedLimits and has no other effect: value and alarm unchanged,
\* nothing enqueued.
C2_LimitViolationNoEffect ==
    (WriteDone /\ OutsideCtrl(T1)) =>
        /\ T1.result = "CannotExceedLimits"
        /\ chan[T1.ch].value = T1.pre.value
        /\ Alarm1.status = T1.pre.status
        /\ Alarm1.severity = T1.pre.severity
        /\ NothingPublished(1)

\* C2 (amended): a write outside the control limits raises
\* CannotExceedLimits and leaves value and timestamp unchanged, but sets the
\* alarm to (WRITE, MAJOR) and enqueues one update with the unchanged value
\* and that alarm for every subscribed group.
C2_LimitViolationSetsWriteAlarm ==
    (WriteDone /\ OutsideCtrl(T1)) =>
        /\ T1.result = "CannotExceedLimits"
        /\ chan[T1.ch].value = T1.pre.value
        /\ chan[T1.ch].timestamp = T1.pre.timestamp
        /\ Alarm1.status = "WRITE"
        /\ Alarm1.severity = MAJOR_ALARM
        /\ OneUpdatePerGroup(1, T1.ch, T1.pre.value, "WRITE", MAJOR_ALARM)

\* C2 witness: a rejected write on a subscribed channel whose alarm was not
\* (WRITE, MAJOR) before.
C2_Witness ==
    /\ WriteDone /\ OutsideCtrl(T1) /\ T1.result = "CannotExceedLimits"
    /\ T1.pre.status = "NO_ALARM"
    /\ SomeGroupSubscribed(T1.ch)

\* C3: while an exception of the try block of write is propagating and once
\* it has been re-raised, the alarm is (WRITE, MAJOR) and the value is the
\* one before the write.
C3_FailedWriteSetsWriteAlarm ==
    \A t \in Tasks :
        (task[t].op = "write" /\ task[t].exc # "none") =>
            /\ alarm[chan[task[t].ch].alarm].status = "WRITE"
            /\ alarm[chan[task[t].ch].alarm].severity = MAJOR_ALARM
            /\ chan[task[t].ch].value = task[t].pre.value
            /\ chan[task[t].ch].timestamp = task[t].pre.timestamp
            /\ task[t].pc = "done" => task[t].result = task[t].exc

\* C3 witness: the update_fields hook raised during a write that had passed
\* verification, on a channel whose alarm carried a limit alarm.
C3_Witness ==
    /\ WriteDone /\ T1.result = "HookError"
    /\ T1.pre.status = "HIGH" /\ T1.pre.severity = MINOR_ALARM
    /\ Alarm1.status = "WRITE"

\* The value handed to write is a list longer than max_length, or an empty
\* list for a channel with max_length 1.
BadLength(tk) ==
    /\ tk.arg.arr
    /\ \/ Len(tk.arg.e) > chan[tk.ch].max_length
       \/ Len(tk.arg.e) = 0 /\ chan[tk.ch].max_length = 1

\* C4 (as claimed): such a write raises and leaves value, timestamp and
\* alarm as they were, and nothing is published.
C4_BadLengthNoEffect ==
    (WriteDone /\ BadLength(T1)) =>
        /\ T1.result = "CaprotoValueError"
        /\ chan[T1.ch].value = T1.pre.value
        /\ chan[T1.ch].timestamp = T1.pre.timestamp
        /\ Alarm1.status = T1.pre.status
        /\ Alarm1.severity = T1.pre.severity
        /\ NothingPublished(1)

\* C4 (amended): such a write raises and leaves value and timestamp as they
\* were, but sets the alarm to (WRITE, MAJOR) and enqueues one update with
\* the unchanged value and that alarm for every subscribed group.
C4_BadLengthSetsWriteAlarm ==
    (WriteDone /\ BadLength(T1)) =>
        /\ T1.result = "CaprotoValueError"
        /\ chan[T1.ch].value = T1.pre.value
        /\ chan[T1.ch].timestamp = T1.pre.timestamp
        /\ Alarm1.status = "WRITE"
        /\ Alarm1.severity = MAJOR_ALARM
        /\ OneUpdatePerGroup(1, T1.ch, T1.pre.value, "WRITE", MAJOR_ALARM)

\* C4 witness: an empty list written to a subscribed scalar channel after a
\* committed write.
C4_Witness ==
    /\ WriteDone /\ BadLength(T1) /\ T1.arg.e = <<>>
    /\ T1.pre.timestamp > 0
    /\ SomeGroupSubscribed(T1.ch)

\* C5 (as claimed): 1 <= len(value) <= max_length, scalar form exactly when
\* max_length = 1.
C5_LengthAtLeastOne ==
    \A c \in Channels :
        /\ 1 <= calculate_length(chan[c].value)
        /\ calculate_length(chan[c].value) <= chan[c].max_length
        /\ (~chan[c].value.arr) <=> (chan[c].max_length = 1)

\* C5 (amended): len(value) <= max_length, scalar form exactly when
\* max_length = 1; a list may be empty.
C5_ShapeAndUpperBound ==
    \A c \in Channels :
        /\ Len(chan[c].value.e) <= chan[c].max_length
        /\ (~chan[c].value.arr) <=> (chan[c].max_length = 1)
        /\ (~chan[c].value.arr) => Len(chan[c].value.e) = 1

\* C5 witness: an empty list was written to a channel with max_length > 1
\* and is its value.
C5_Witness ==
    /\ WriteDone /\ T1.result = "none"
    /\ chan[T1.ch].max_length > 1
    /\ chan[T1.ch].value = Arr(<<>>)
    /\ T1.pre.value # Arr(<<>>)

\* C6 (as claimed): the update subscribe hands to queue.put has flags 0 and
\* the metadata and values of a read of the channel as it is at that call.
C6_InitialUpdateIsCurrent ==
    \A t \in Tasks :
        (task[t].op = "subscribe" /\ task[t].pc = "put") =>
            \A s \in task[t].pend.sub_specs :
                LET c == task[t].ch
                    r == read(chan[c], alarm[chan[c].alarm], data_type_name(s))
                IN /\ task[t].pend.flags = {}
                   /\ task[t].pend.metadata = r.md
                   /\ task[t].pend.values = r.values

\* C7 (as claimed): on every queue, an update of publish that lists a spec
\* comes after the initial update of that spec's subscribe.
C7_InitialBeforePublish ==
    \A q \in Queues : \A i \in DOMAIN queue[q] :
        queue[q][i].sub = NoneStr =>
            \A s \in queue[q][i].sub_specs :
                \E j \in 1..(i - 1) : queue[q][j].sub = s

\* C8 (as claimed): a publish call reads a wire type from its channel at
\* most once.
C8_OneReadPerType ==
    \A t \in Tasks : \A T \in WireTypes : task[t].nread[T] <= 1

\* C9: with must_acknowledge_transient true, severity_to_acknowledge stays
\* at or above every severity written since the last acknowledgement that
\* took effect, also when later writes lower the severity; an
\* acknowledgement request >= the current severity sets it to NO_ALARM.
C9_AckLatch ==
    hist.k = "call" =>
        LET al == alarm[hist.a]
        IN /\ al.must_acknowledge_transient =>
                 al.severity_to_acknowledge >= hist.latched
           /\ hist.acked => al.severity_to_acknowledge = NO_ALARM_SEV

\* C9 witness: severity was raised to MAJOR and is back at NO_ALARM while
\* severity_to_acknowledge is still MAJOR.
C9_Witness ==
    /\ hist.k = "call" /\ hist.severity_written /\ ~hist.acked
    /\ alarm[hist.a].must_acknowledge_transient
    /\ alarm[hist.a].severity = NO_ALARM_SEV
    /\ alarm[hist.a].severity_to_acknowledge = MAJOR_ALARM
    /\ hist.latched = MAJOR_ALARM

\* C10 (as claimed): severity_to_acknowledge >= 0; after a write it is
\* max(prior, severity) when must_acknowledge_transient is true, and has not
\* increased when it is false.
C10_MaxOrNotIncreased ==
    /\ \A a \in Alarms : alarm[a].severity_to_acknowledge >= 0
    /\ hist.k = "call" =>
          LET al == alarm[hist.a]
          IN /\ (hist.prior_ackt /\ al.must_acknowledge_transient) =>
                   al.severity_to_acknowledge = Max(hist.prior_acks, al.severity)
             /\ ((~hist.prior_ackt) /\ ~al.must_acknowledge_transient) =>
                   al.severity_to_acknowledge <= hist.prior_acks

\* C10 (amended): severity_to_acknowledge >= 0; after a write that sets
\* severity and whose acknowledgement request, if any, is below the new
\* severity, it is max(prior, severity) when must_acknowledge_transient is
\* true before and after the write, and the new severity otherwise (so with
\* the flag false it may increase); an acknowledgement request that takes
\* effect leaves 0; a write that does not set severity never increases it.
C10_AckRule ==
    /\ \A a \in Alarms : alarm[a].severity_to_acknowledge >= 0
    /\ hist.k = "call" =>
          LET al == alarm[hist.a]
          IN /\ (hist.severity_written /\ ~hist.acked) =>
                   al.severity_to_acknowledge =
                      IF hist.prior_ackt /\ al.must_acknowledge_transient
                      THEN Max(hist.prior_acks, al.severity)
                      ELSE al.severity
             /\ hist.acked => al.severity_to_acknowledge = 0
             /\ (~hist.severity_written) =>
                   al.severity_to_acknowledge <= hist.prior_acks

\* C10 witness: a severity write with must_acknowledge_transient false
\* raised severity_to_acknowledge.
C10_Witness ==
    /\ hist.k = "call" /\ hist.severity_written /\ ~hist.acked
    /\ ~hist.prior_ackt
    /\ alarm[hist.a].severity_to_acknowledge > hist.prior_acks

\* C11 (as claimed): whenever must_acknowledge_transient is true and the
\* most recent change of severity was an increase, severity_to_acknowledge
\* >= severity.
C11_AcksCoversRisenSeverity ==
    hist.k = "call" =>
        LET al == alarm[hist.a]
        IN (al.must_acknowledge_transient /\ hist.rising) =>
              al.severity_to_acknowledge >= al.severity

\* C11 (amended): whenever must_acknowledge_transient is true, the most
\* recent change of severity was an increase and no acknowledgement request
\* has taken effect since, severity_to_acknowledge >= severity.
C11_AcksCoversUnackedRise ==
    hist.k = "call" =>
        LET al == alarm[hist.a]
        IN (al.must_acknowledge_transient /\ hist.rising /\ ~hist.acked_since) =>
              al.severity_to_acknowledge >= al.severity

\* C11 witness: severity went MAJOR, NO_ALARM, MINOR: the last change is an
\* increase, and the latched MAJOR is still to be acknowledged.
C11_Witness ==
    /\ hist.k = "call" /\ hist.rising /\ ~hist.acked_since
    /\ alarm[hist.a].must_acknowledge_transient
    /\ hist.prior_severity = NO_ALARM_SEV
    /\ alarm[hist.a].severity = MINOR_ALARM
    /\ alarm[hist.a].severity_to_acknowledge = MAJOR_ALARM

\* A call that only asks for an acknowledgement, on an alarm whose
\* must_acknowledge_transient is and stays true.
AckOnlyCall ==
    /\ hist.k = "call" /\ hist.ack_requested /\ ~hist.severity_written
    /\ hist.prior_ackt /\ alarm[hist.a].must_acknowledge_transient

\* C12 (as claimed): an acknowledgement request >= the current severity made
\* while severity is MAJOR and must_acknowledge_transient is true leaves
\* severity_to_acknowledge as it was; it is cleared to NO_ALARM only when
\* severity is NO_ALARM.
C12_AckDeferredWhileMajor ==
    AckOnlyCall =>
        LET al == alarm[hist.a]
        IN /\ (hist.acked /\ al.severity = MAJOR_ALARM) =>
                 al.severity_to_acknowledge = hist.prior_acks
           /\ (hist.prior_acks > 0 /\ al.severity_to_acknowledge = NO_ALARM_SEV) =>
                 al.severity = NO_ALARM_SEV

\* C12 (amended): an acknowledgement request >= the current severity clears
\* severity_to_acknowledge to NO_ALARM at once, also while severity is MAJOR;
\* a request below the current severity leaves it as it was; severity is
\* untouched either way.
C12_AckClearsAtOnce ==
    AckOnlyCall =>
        LET al == alarm[hist.a]
        IN /\ al.severity = hist.prior_severity
           /\ al.severity_to_acknowledge =
                 IF hist.acked THEN NO_ALARM_SEV ELSE hist.prior_acks

\* C12 witness: MAJOR was acknowledged while severity was still MAJOR.
C12_Witness ==
    /\ AckOnlyCall /\ hist.acked
    /\ alarm[hist.a].severity = MAJOR_ALARM
    /\ hist.prior_acks = MAJOR_ALARM
    /\ alarm[hist.a].severity_to_acknowledge = NO_ALARM_SEV

\* Each channel is in the attached set of the alarm it references and of no
\* other alarm.
AttachedWhereReferenced ==
    \A c \in Channels : \A a \in Alarms :
        (c \in alarm[a].channels) <=> (chan[c].alarm = a)

\* C20: in every state each channel is attached to exactly the alarm it
\* references (the alarm setter detaches and attaches in one step), and an
\* assignment of the alarm the channel already has changes neither the
\* channels nor the alarms.
C20_AlarmAttachment ==
    /\ []AttachedWhereReferenced
    /\ [][\A t \in Tasks :
            (task'[t].op = "set_alarm" /\ clock' # clock
               /\ chan'[task'[t].ch].alarm = chan[task'[t].ch].alarm)
            => UNCHANGED <<chan, alarm>>]_vars

\* C20 witness: channel A was moved to alarm a2, which it now shares with B.
C20_Witness ==
    /\ T1.op = "set_alarm"
    /\ chan["A"].alarm = "a2"
    /\ alarm["a2"].channels = {"A", "B"}
    /\ alarm["a1"].channels = {}

\* A write of task t is in progress: started and not yet ended.
WriteInProgress(t) == task[t].op = "write" /\ task[t].pc \in {"hook", "put"}

\* C15: writes on one channel are serialised: while the write of one task
\* is suspended in a hook or in queue.put, no other task has run a step of
\* a write on the same channel.
C15_WritesSerialised ==
    \A t, u \in Tasks :
        (t # u /\ WriteInProgress(t) /\ WriteInProgress(u))
        => task[t].ch # task[u].ch

\* C16: on each queue the updates of one publish call of a channel are
\* contiguous with respect to that channel: between two updates of one
\* publish call there is no update of another publish call on the channel.
C16_PublishContiguous ==
    \A q \in Queues :
        \A i, j, k \in 1..Len(queue[q]) :
            (i < j /\ j < k /\ queue[q][i].pub = queue[q][k].pub
               /\ queue[q][i].pub[3] > 0
               /\ queue[q][j].pub[1] = queue[q][i].pub[1]
               /\ queue[q][j].pub[3] > 0)
            => queue[q][j].pub = queue[q][i].pub

\* The channel and its alarm are as the write of task record tk found them.
AsBeforeWrite(tk) ==
    /\ chan[tk.ch].value = tk.pre.value
    /\ chan[tk.ch].timestamp = tk.pre.timestamp
    /\ alarm[chan[tk.ch].alarm].status = tk.pre.status
    /\ alarm[chan[tk.ch].alarm].severity = tk.pre.severity

\* No task but t has run an operation.
OnlyTask(t) == \A u \in Tasks \ {t} : task[u].op = "idle"

\* C17: a write cancelled while suspended in its hook ends with the
\* cancellation; the step changes no alarm, neither the value nor the
\* timestamp of the channel, and no queue, leaves no update pending, and
\* (no other task having run) the channel and its alarm are as they were
\* when the write began.
C17_CancelInHook ==
    [][\A t \in Tasks :
          (task[t].op = "write" /\ task[t].pc = "hook" /\ task'[t].hook = "cancel")
          => /\ task'[t].pc = "done"
             /\ task'[t].result = "CancelledError"
             /\ task'[t].pend = NoUpdate
             /\ alarm' = alarm
             /\ queue' = queue
             /\ chan'[task[t].ch].value = chan[task[t].ch].value
             /\ chan'[task[t].ch].timestamp = chan[task[t].ch].timestamp
             /\ chan'[task[t].ch].alarm = chan[task[t].ch].alarm
             /\ OnlyTask(t) => AsBeforeWrite(task[t])']_vars

\* A write of 6 to the subscribed channel holding 1 was cancelled in its
\* hook.
C17_Witness ==
    /\ T1.op = "write" /\ T1.pc = "done" /\ T1.hook = "cancel"
    /\ T1.result = "CancelledError"
    /\ T1.arg = Sc(6) /\ chan["A"].value = Sc(1)
    /\ subs["A"][<<"q1", "TIME_DOUBLE", NoneStr>>] # {}

\* C18: whenever no write is in progress on a channel, its staged status
\* and staged severity are both empty (None), whichever way its writes
\* ended (committed, skipped, failed or cancelled), and its status and
\* severity properties report the alarm's values.
C18_StagingCollected ==
    \A c \in Channels :
        (\A t \in Tasks : ~(WriteInProgress(t) /\ task[t].ch = c))
        => /\ chan[c]._status = NoneStr /\ chan[c]._severity = NoneInt
           /\ status(chan[c], alarm[chan[c].alarm]) = alarm[chan[c].alarm].status
           /\ severity(chan[c], alarm[chan[c].alarm]) = alarm[chan[c].alarm].severity

\* Two writes of 6 (which stages HIGH, MINOR) have ended, one by an
\* exception of its hook, one by cancellation.
C18_Witness ==
    /\ \A t \in Tasks : task[t].op = "write" /\ task[t].pc = "done"
                        /\ task[t].arg = Sc(6)
    /\ task[1].hook = "error" /\ task[1].result = "HookError"
    /\ task[2].hook = "cancel"
    /\ chan["A"]._status = NoneStr

SyncUpdates(t, m) ==
    {u \in UNION {{Fresh(t, q)[i] : i \in DOMAIN Fresh(t, q)} : q \in Queues} :
        \E s \in u.sub_specs : sync(s) = m}

\* C13: when a write fills the queued (S, after) entry (it is the first
\* write after pre_state_change(S, true) and post_state_change(S, true)),
\* its publish hands the subscriber with sync (S, after) the written value,
\* and the subscriber with sync (S, before) the value the before snapshot
\* was taken with.
C13_AfterSnapshotIsPostWrite ==
    (WriteDone /\ T1.result = "none" /\ <<"S", "after">> \in T1.filled)
    => /\ subs[T1.ch][<<"q1", "TIME_DOUBLE", "after">>] # {}
          => SyncUpdates(1, "after") # {}
       /\ \A u \in SyncUpdates(1, "after") :
             u.values = convert_values(T1.arg, native_type("TIME_DOUBLE"))
       /\ \A u \in SyncUpdates(1, "before") :
             u.values = convert_values(chan[T1.ch]._snapshots["S"]["before"].ch.value,
                                       native_type("TIME_DOUBLE"))

\* What the snapshot under mode m of state st of channel c reports: the
\* value, timestamp, status and severity of a read of it.
Reports(c, st, m) ==
    LET snap == chan[c]._snapshots[st][m]
        src == IF snap.k = "live"
               THEN [ch |-> chan[c], al |-> alarm[chan[c].alarm]]
               ELSE snap
    IN [value |-> src.ch.value, timestamp |-> src.ch.timestamp,
        status |-> src.al.status, severity |-> src.al.severity]

\* C14: a snapshot stored under before, last, after or first reports the
\* same value and metadata after every step that is not a pre_state_change
\* on its state variable: no write, write_metadata, alarm write or
\* publish on the live channel changes it.
C14_SnapshotIndependent ==
    [][\A c \in Channels, st \in States, m \in {"before", "last", "after", "first"} :
          (/\ chan[c]._snapshots[st][m].k # "absent"
           /\ ~(\E t \in Tasks : /\ task'[t].op = "pre_state_change"
                                 /\ clock' # clock
                                 /\ task'[t].ch = c /\ task'[t].state = st))
          => /\ chan'[c]._snapshots[st][m].k # "absent"
             /\ Reports(c, st, m)' = Reports(c, st, m)]_vars

\* The before and after snapshots of state S report value 1 and NO_ALARM;
\* a write later than the one that filled the after snapshot has ended, and
\* the live channel holds 6 and is in alarm.
C14_Witness ==
    /\ chan["A"]._snapshots["S"]["before"].k = "copy"
    /\ chan["A"]._snapshots["S"]["after"].k = "copy"
    /\ Reports("A", "S", "before").value = Sc(1)
    /\ Reports("A", "S", "after").value = Sc(1)
    /\ Reports("A", "S", "after").severity = NO_ALARM_SEV
    /\ WriteDone /\ T1.result = "none" /\ T1.filled = {}
    /\ chan["A"].value = Sc(6)
    /\ Alarm1.severity # NO_ALARM_SEV

\* C21: connecting a channel that is attached leaves the set as it was, and
\* disconnecting a channel that is not attached raises no error and leaves
\* the set as it was.
C21_AttachIdempotent ==
    \A t \in Tasks :
        /\ (task[t].op = "connect" /\ task[t].ch \in task[t].pre.channels)
           => /\ task[t].result = "none"
              /\ alarm[task[t].pre.a].channels = task[t].pre.channels
        /\ (task[t].op = "disconnect" /\ task[t].ch \notin task[t].pre.channels)
           => /\ task[t].result = "none"
              /\ alarm[task[t].pre.a].channels = task[t].pre.channels

\* Task t starts a client request (auth_write or auth_read) in this step.
RequestStarts(t) ==
    clock' # clock /\ task'[t].call = clock' /\ task'[t].dbr # NoneStr

\* The right the request task t starts needs.
RightNeeded(t) == IF task'[t].op = "auth_read" THEN "READ" ELSE "WRITE"

\* C22: a request of a client without the right it needs (WRITE for
\* auth_write, READ for auth_read) ends at once with Forbidden, changes no
\* channel, alarm, cache or registry and leaves nothing to publish; a
\* request of a client with the right, and every request under the default
\* check_access, does not end with Forbidden.
C22_ForbiddenWithoutRight ==
    [][\A t \in Tasks :
          RequestStarts(t)
          => /\ (RightNeeded(t) \notin task'[t].access)
                => /\ task'[t].pc = "done"
                   /\ task'[t].result = "Forbidden"
                   /\ task'[t].pend = NoUpdate
                   /\ task'[t].ret = NoUpdate
                   /\ UNCHANGED <<chan, alarm, content, subs>>
             /\ (RightNeeded(t) \in task'[t].access)
                => task'[t].result # "Forbidden"
             /\ (task'[t].access = check_access)
                => task'[t].result # "Forbidden"]_vars

\* A client with the READ right only asked to write 6 to the subscribed
\* channel holding 1 and got Forbidden.
C22_Witness ==
    /\ T1.op = "auth_write" /\ T1.result = "Forbidden"
    /\ T1.access = {"READ"} /\ T1.dbr = "DOUBLE"
    /\ chan["A"].value = Sc(1)
    /\ SomeGroupSubscribed("A")
    /\ NothingPublished(1)

\* The alarm of the channel of the request task t starts, before and after
\* the step.
ReqAlarm(t) == alarm[chan[task'[t].ch].alarm]
ReqAlarmAfter(t) == alarm'[chan[task'[t].ch].alarm]

\* C23: a write request of a client with the WRITE right and type PUT_ACKS
\* or PUT_ACKT changes no channel (value and timestamp stay) and, of the
\* alarms, only the acknowledgement fields of the channel's alarm: PUT_ACKS
\* clears severity_to_acknowledge when the value sent is at least the
\* severity and leaves it otherwise, PUT_ACKT sets
\* must_acknowledge_transient and does not raise severity_to_acknowledge.
\* With type STSACK_STRING or CLASS_NAME it ends with CaprotoValueError and
\* changes no channel, alarm or cache.
C23_AckAndBadRequests ==
    [][\A t \in Tasks :
          (RequestStarts(t) /\ task'[t].op # "auth_read"
             /\ "WRITE" \in task'[t].access)
          => /\ (task'[t].dbr \in {"PUT_ACKS", "PUT_ACKT"})
                => /\ chan' = chan
                   /\ task'[t].exc = "none"
                   /\ \A a \in Alarms : a # chan[task'[t].ch].alarm
                                        => alarm'[a] = alarm[a]
                   /\ ReqAlarmAfter(t).status = ReqAlarm(t).status
                   /\ ReqAlarmAfter(t).severity = ReqAlarm(t).severity
                   /\ ReqAlarmAfter(t).channels = ReqAlarm(t).channels
             /\ (task'[t].dbr = "PUT_ACKS")
                => /\ ReqAlarmAfter(t).must_acknowledge_transient
                         = ReqAlarm(t).must_acknowledge_transient
                   /\ ReqAlarmAfter(t).severity_to_acknowledge =
                         IF task'[t].arg.e[1] >= ReqAlarm(t).severity
                         THEN 0 ELSE ReqAlarm(t).severity_to_acknowledge
             /\ (task'[t].dbr = "PUT_ACKT")
                => /\ ReqAlarmAfter(t).must_acknowledge_transient
                         = (task'[t].arg.e[1] # 0)
                   /\ ReqAlarmAfter(t).severity_to_acknowledge
                         <= ReqAlarm(t).severity_to_acknowledge
             /\ (task'[t].dbr \in {"STSACK_STRING", "CLASS_NAME"})
                => /\ task'[t].pc = "done"
                   /\ task'[t].result = "CaprotoValueError"
                   /\ task'[t].pend = NoUpdate
                   /\ UNCHANGED <<chan, alarm, content>>]_vars

\* The channel was written 11 (HIHI, MAJOR); a PUT_ACKS request with value
\* 2 has ended and cleared severity_to_acknowledge; the value is still 11.
C23_Witness ==
    /\ T1.dbr = "PUT_ACKS" /\ T1.pc = "done" /\ T1.result = "none"
    /\ T1.arg = Sc(2)
    /\ chan["A"].value = Sc(11)
    /\ Alarm1.severity = MAJOR_ALARM
    /\ Alarm1.severity_to_acknowledge = 0

\* The classification of a scalar v against the alarm and warning limits
\* lim: the alarm limits first, then the warning limits, bounds included.
ReferenceClass(lim, v) ==
    LET alarm_differ == lim.lower_alarm_limit # lim.upper_alarm_limit
        warning_differ == lim.lower_warning_limit # lim.upper_warning_limit
    IN CASE alarm_differ /\ v <= lim.lower_alarm_limit -> <<"LOLO", MAJOR_ALARM>>
         [] alarm_differ /\ v > lim.lower_alarm_limit /\ v >= lim.upper_alarm_limit
              -> <<"HIHI", MAJOR_ALARM>>
         [] OTHER ->
              CASE warning_differ /\ v <= lim.lower_warning_limit
                     -> <<"LOW", MINOR_ALARM>>
                [] warning_differ /\ v > lim.lower_warning_limit
                   /\ v >= lim.upper_warning_limit -> <<"HIGH", MINOR_ALARM>>
                [] OTHER -> <<"NO_ALARM", NO_ALARM_SEV>>

\* verify_value has just accepted the scalar T1.arg on channel A.
ScalarAccepted ==
    T1.op = "verify_value" /\ T1.result = "none" /\ ~T1.arg.arr

\* C24: after verify_value accepted a scalar v (v within the control limits,
\* or no control limits), the status and severity staged on the channel are
\* the classification of v: LOLO/MAJOR at or below the lower alarm limit,
\* HIHI/MAJOR at or above the upper alarm limit when the alarm limits
\* differ; otherwise LOW/MINOR at or below the lower warning limit,
\* HIGH/MINOR at or above the upper warning limit when the warning limits
\* differ; otherwise NO_ALARM/NO_ALARM.
C24_StagedIsClassification ==
    ScalarAccepted =>
        <<chan["A"]._status, chan["A"]._severity>>
            = ReferenceClass(chan["A"].lim, T1.arg.e[1])

\* The scalar equal to the upper warning limit, on a channel whose alarm
\* limits coincide, has been classified HIGH/MINOR.
C24_Witness ==
    /\ ScalarAccepted
    /\ chan["A"].lim.lower_alarm_limit = chan["A"].lim.upper_alarm_limit
    /\ chan["A"].lim.lower_warning_limit # chan["A"].lim.upper_warning_limit
    /\ T1.arg.e[1] = chan["A"].lim.upper_warning_limit
    /\ chan["A"]._status = "HIGH" /\ chan["A"]._severity = MINOR_ALARM

\* C25 (as claimed): after every successful write of a scalar to a numeric
\* channel, the status and the severity of the channel's alarm are both the
\* result of the limit check of the written value, whatever the alarm held
\* before (also when only its severity differed from the staged one).
C25_CommitMergesStatusAndSeverity ==
    (WriteDone /\ T1.result = "none" /\ chan[T1.ch].max_length = 1) =>
        LET la == LimitAlarm(chan[T1.ch].lim, T1.arg.e[1])
        IN Alarm1.status = la[1] /\ Alarm1.severity = la[2]

\* The enum channel of the enum specification and its table.
EnumA == chan["A"]
EnumE == chan["A"].enum_strings
\* The positions (from 0) of the table that hold the string written.
WrittenAt == {i \in 0..(Len(EnumE) - 1) : T1.arg.t = "str" /\ EnumE[i + 1] = T1.arg.s}

\* C26 (as claimed): after write(E[i]) the value is E[i] and raw_value is i,
\* for every index i of the table; after write(i) the value is E[i]; a
\* string that is not in the table is stored as it is.
C26_EnumWriteRoundTrip ==
    WriteDone =>
        /\ \A i \in WrittenAt : EnumA.value = PyStr(EnumE[i + 1]) /\ raw_value(EnumA) = i
        /\ (T1.arg.t = "int" /\ 0 <= T1.arg.n /\ T1.arg.n < Len(EnumE))
              => EnumA.value = PyStr(EnumE[T1.arg.n + 1])
        /\ (T1.arg.t = "str" /\ WrittenAt = {}) => EnumA.value = T1.arg

\* C26 (amended): after write(E[i]) the value is E[i] and raw_value is the
\* first index that holds the string E[i] (i itself when no earlier entry of
\* the table equals E[i]); after write(i) the value is E[i]; a string that
\* is not in the table is stored as it is and raw_value is None.
C26_EnumWriteFirstIndex ==
    WriteDone =>
        /\ \A i \in WrittenAt :
              /\ EnumA.value = PyStr(EnumE[i + 1])
              /\ raw_value(EnumA) \in WrittenAt
              /\ raw_value(EnumA) <= i
              /\ (\A j \in WrittenAt : j >= i) => raw_value(EnumA) = i
        /\ (T1.arg.t = "int" /\ 0 <= T1.arg.n /\ T1.arg.n < Len(EnumE))
              => EnumA.value = PyStr(EnumE[T1.arg.n + 1])
        /\ (T1.arg.t = "str" /\ WrittenAt = {})
              => EnumA.value = T1.arg /\ raw_value(EnumA) = NoneInt

\* The string that a table holds at the indices 0 and 1 has been written:
\* raw_value is 0.
C26_Witness ==
    /\ WriteDone /\ T1.arg = PyStr("on")
    /\ WrittenAt = {0, 1}
    /\ EnumA.value = PyStr("on") /\ raw_value(EnumA) = 0

\* C27 (as claimed): verify_value, seen through the value a write stores,
\* returns enum_strings[data] exactly when data is an int with
\* 0 <= data < len(enum_strings), and data itself for every other input:
\* ints outside that range, negative ones included, and values that are no
\* ints.
C27_EnumVerifyValue ==
    WriteDone =>
        EnumA.value = IF T1.arg.t = "int" /\ 0 <= T1.arg.n /\ T1.arg.n < Len(EnumE)
                      THEN PyStr(EnumE[T1.arg.n + 1])
                      ELSE T1.arg

\* Task 1 has read a graphic type with a units field after task 2 wrote
\* units with write_metadata.
UnitsReadBack ==
    /\ task[1].op = "read" /\ has_units_field(task[1].dbr)
    /\ task[2].op = "write_metadata" /\ task[2].arg # NoUnits
    /\ task[2].call < task[1].call
\* The units task 2 wrote: the str given, alone or in a list.
UnitsWritten == task[2].arg.e[1]

IsNumeric == "lim" \in DOMAIN chan["A"]

C29_TimestampNeverEarlier ==
    WriteDone => chan[T1.ch].timestamp >= T1.pre.timestamp

\* C29 (amended): a write that fails leaves the timestamp; a write that
\* commits and was given no timestamp sets it to the time of the write,
\* which is not earlier than the timestamp before if that was no later than
\* the clock; a write that commits and was given a timestamp sets exactly
\* that one, earlier or not.
C29_TimestampOfCommit ==
    WriteDone =>
        /\ T1.result # "none" => chan[T1.ch].timestamp = T1.pre.timestamp
        /\ (T1.result = "none" /\ T1.kw.timestamp = NoneInt) =>
              /\ chan[T1.ch].timestamp = T1.call
              /\ T1.pre.timestamp < T1.call
                    => chan[T1.ch].timestamp >= T1.pre.timestamp
        /\ (T1.result = "none" /\ T1.kw.timestamp # NoneInt) =>
              chan[T1.ch].timestamp = T1.kw.timestamp

\* A write without a timestamp moved the timestamp forward to its own time,
\* after a write that had set a timestamp.
C29_Witness ==
    /\ WriteDone /\ T1.result = "none" /\ T1.kw.timestamp = NoneInt
    /\ T1.pre.timestamp = 0 /\ T1.call = 2
    /\ chan[T1.ch].timestamp = 2

\* The metadata md carry a status and severity that one alarm state held
\* together.
PairHeld(md) == <<md.status, md.severity>> \in AtomicPairs
\* The updates that carry alarm fields: on the queues and held by the tasks
\* suspended in queue.put.
AlarmUpdates ==
    UNION {{queue[q][i] : i \in 1..Len(queue[q])} : q \in Queues}
    \cup {task[t].pend : t \in {u \in Tasks : task[u].pc = "put"}}

\* C30: while alarm writes (each a status with its severity) and writes to
\* the channel run among suspended publishes, the alarm never holds and no
\* update, cached conversion or alarm read ever carries a status with the
\* severity of another alarm state; an alarm read carries the
\* acknowledgement fields of the same state (must_acknowledge_transient
\* set, severity_to_acknowledge not below the severity).
C30_AlarmSnapshotConsistent ==
    /\ PairHeld(alarm["a1"])
    /\ alarm["a1"].severity_to_acknowledge >= alarm["a1"].severity
    /\ \A u \in AlarmUpdates : PairHeld(u.metadata)
    /\ \A key \in CacheKeys :
          content["A"][key].k = "entry" => PairHeld(content["A"][key].md)
    /\ \A t \in Tasks :
          (task[t].op = "auth_read" /\ task[t].result = "none") =>
              /\ PairHeld(task[t].ret.md)
              /\ task[t].ret.md.ackt = 1
              /\ task[t].ret.md.acks >= task[t].ret.md.severity

\* Task 1 is suspended in queue.put with an update made before task 2 wrote
\* the alarm: the update carries the former state, whole.
C30_Witness ==
    /\ task[1].op = "write" /\ task[1].pc = "put"
    /\ task[2].op = "alarm_write" /\ task[2].call > task[1].call
    /\ <<task[1].pend.metadata.status, task[1].pend.metadata.severity>>
          = <<"HIGH", MINOR_ALARM>>
    /\ <<alarm["a1"].status, alarm["a1"].severity>> = <<"HIHI", MAJOR_ALARM>>

\* The channels whose publish put the updates that arrived on q1 since the
\* write of task 1 started, in the order of arrival.
PublishedBy == [i \in DOMAIN Fresh(1, "q1") |-> Fresh(1, "q1")[i].pub[1]]
\* The write of task 1 changed the status or the severity of the alarm.
AlarmChanged ==
    Alarm1.status # T1.pre.status \/ Alarm1.severity # T1.pre.severity
\* The metadata of the write of task 1 held neither status nor severity:
\* none was given and the limit check staged the status the alarm had.
MetadataUntouched ==
    /\ T1.kw.status = NoneStr /\ T1.kw.severity = NoneInt
    /\ LimitAlarm(chan["A"].lim, T1.arg.e[1])[1] = T1.pre.status

\* C31: a committed write on A that changed the status or severity of the
\* alarm A shares with B left exactly one update of A's own publish and then
\* exactly one update of B's publish, made by the write's fan-out (its
\* second publish call) with the flags of the write and carrying the alarm
\* as the write left it; a committed write whose metadata held neither
\* status nor severity left the one update of A and none of B.
C31_FanOutOncePerOtherChannel ==
    (WriteDone /\ T1.result = "none") =>
        /\ AlarmChanged =>
              /\ PublishedBy = <<"A", "B">>
              /\ Fresh(1, "q1")[1].pub = <<"A", T1.call, 1>>
              /\ Fresh(1, "q1")[2].pub = <<"B", T1.call, 2>>
              /\ Fresh(1, "q1")[2].flags = Fresh(1, "q1")[1].flags
              /\ Fresh(1, "q1")[2].metadata.status = Alarm1.status
              /\ Fresh(1, "q1")[2].metadata.severity = Alarm1.severity
        /\ MetadataUntouched => PublishedBy = <<"A">>

\* A write of a value in alarm changed the shared alarm and both channels
\* published.
C31_Witness ==
    /\ WriteDone /\ T1.result = "none" /\ AlarmChanged
    /\ T1.kw = NoMd
    /\ PublishedBy = <<"A", "B">>
    /\ Alarm1.status = "HIHI"

\* Task t starts, in this step, an acknowledgement request: a client with
\* the WRITE right writes the severity task'[t].arg to the alarm (PUT_ACKS).
AckRequestStarts(t) ==
    /\ RequestStarts(t) /\ task'[t].dbr = "PUT_ACKS"
    /\ "WRITE" \in task'[t].access
AckRequested(t) == task'[t].arg.e[1]

\* C32: an acknowledgement request a at or above the alarm's severity sets
\* severity_to_acknowledge to 0; a request below the severity leaves the
\* alarm as it was, every field of it (so severity_to_acknowledge goes to 0
\* from another value only if a >= severity).
C32_AckRequestClearsIffCovering ==
    [][\A t \in Tasks :
          AckRequestStarts(t) =>
              /\ AckRequested(t) >= ReqAlarm(t).severity
                    => ReqAlarmAfter(t).severity_to_acknowledge = 0
              /\ AckRequested(t) < ReqAlarm(t).severity
                    => ReqAlarmAfter(t) = ReqAlarm(t)
              /\ (ReqAlarmAfter(t).severity_to_acknowledge = 0
                  /\ ReqAlarm(t).severity_to_acknowledge # 0)
                    => AckRequested(t) >= ReqAlarm(t).severity]_vars

\* The alarm is MAJOR with MAJOR to acknowledge, and a request to
\* acknowledge MINOR has ended and left it so.
C32_Witness ==
    /\ T1.dbr = "PUT_ACKS" /\ T1.pc = "done" /\ T1.result = "none"
    /\ T1.arg = Sc(MINOR_ALARM)
    /\ Alarm1.severity = MAJOR_ALARM
    /\ Alarm1.severity_to_acknowledge = MAJOR_ALARM

\* The hook calls of the write of task t by name.
HookCalls(t, name) ==
    {i \in DOMAIN task[t].hooks : task[t].hooks[i].hook = name}

\* C33 (as claimed): a write whose verify_value returned SkipWrite has not
\* called update_fields, and update_fields is never called with SkipWrite as
\* its argument.
C33_SkipValueSkipsUpdateFields ==
    \A t \in Tasks :
        (task[t].op = "write" /\ task[t].pc = "done") =>
            /\ (\E i \in HookCalls(t, "verify_value") :
                   task[t].hooks[i].ret = SkipWriteValue)
                  => HookCalls(t, "update_fields") = {}
            /\ \A i \in HookCalls(t, "update_fields") :
                  task[t].hooks[i].arg # SkipWriteValue


\* The updates on the queue of unsubscribe call tk that publish calls of
\* operations started after it enqueued.
LaterUpdates(tk) ==
    {u \in {queue[tk.pq][i] : i \in 1..Len(queue[tk.pq])} :
        u.sub = NoneStr /\ u.pub[1] = tk.ch /\ u.pub[2] > tk.call}
Unsubscribes == {t \in Tasks : task[t].op = "unsubscribe"}
\* No later update lists the spec unsubscribed.
UnsubscribedNotListed ==
    \A t \in Unsubscribes :
       \A u \in LaterUpdates(task[t]) : task[t].sub_spec \notin u.sub_specs
\* A group the call left empty gets no later update.
EmptyGroupSilent ==
    \A t \in Unsubscribes :
       task[t].pre.left = {} =>
          \A u \in LaterUpdates(task[t]) :
             /\ u.sub_specs # {}
             /\ \A s \in u.sub_specs :
                   \/ data_type_name(s) # data_type_name(task[t].sub_spec)
                   \/ sync(s) # sync(task[t].sub_spec)
\* Unsubscribing a spec that is not subscribed does not raise and leaves
\* the set of its group as it was.
UnsubscribeNoOp ==
    \A t \in Unsubscribes :
       /\ task[t].result = "none"
       /\ task[t].sub_spec \notin task[t].pre.had
             => task[t].pre.left = task[t].pre.had
\* No write's publish fails in the loop over the registry.
PublishUndisturbed ==
    \A t \in Tasks : task[t].op = "write" => task[t].result # "RuntimeError"

\* C34 (as claimed): after unsubscribe(queue, spec) has returned no update
\* of a later publish on that queue lists the spec, and a group the call
\* left without specs gets no further update; unsubscribing a spec that is
\* not subscribed does not raise, leaves the registry's sets as they were
\* and does not change what the other subscriptions receive: the publish
\* of a write that is under way delivers its updates and returns.
C34_UnsubscribeStopsUpdates ==
    /\ UnsubscribedNotListed
    /\ EmptyGroupSilent
    /\ UnsubscribeNoOp
    /\ PublishUndisturbed


ArrayWriteDone ==
    /\ WriteDone /\ chan[T1.ch].max_length > 1
    /\ T1.result # "CaprotoValueError"
AlarmAsBefore ==
    Alarm1.status = T1.pre.status /\ Alarm1.severity = T1.pre.severity

\* C36 (as claimed): on a channel with max_length > 1 no write of a list,
\* of one element or of a scalar wrapped into a list of one element
\* included, raises CannotExceedLimits or stages an alarm: a write that
\* returns leaves the alarm as it was.
C36_ArraysBypassLimits ==
    ArrayWriteDone =>
        /\ T1.result # "CannotExceedLimits"
        /\ T1.result = "none" => AlarmAsBefore

\* C36 (amended): on a channel with max_length > 1 a list whose length is
\* not 1 bypasses the limit checks: its write never raises
\* CannotExceedLimits and leaves the alarm as it was.  A list of one
\* element, also one preprocess_value made of a scalar, is checked like a
\* scalar: its write raises CannotExceedLimits exactly when the element is
\* outside differing control limits, and otherwise stages the element's
\* classification, which the commit hands to the alarm when its status
\* differs from the alarm's.
C36_OnlyLongerArraysBypass ==
    ArrayWriteDone =>
        IF Len(T1.arg.e) # 1
        THEN /\ T1.result # "CannotExceedLimits"
             /\ T1.result = "none" => AlarmAsBefore
        ELSE /\ T1.result = "CannotExceedLimits" <=> OutsideCtrl(T1)
             /\ T1.result = "none" =>
                   LET la == LimitAlarm(chan[T1.ch].lim, T1.arg.e[1])
                   IN IF la[1] # T1.pre.status
                      THEN Alarm1.status = la[1] /\ Alarm1.severity = la[2]
                      ELSE AlarmAsBefore

\* C36 witness: the scalar 20 written to a channel with max_length > 1 and
\* control limits -15 and 15 became the list [20] and was refused.
C36_Witness ==
    /\ ArrayWriteDone
    /\ T1.arg = Arr(<<20>>)
    /\ T1.result = "CannotExceedLimits"


\* The modes of the two polarities of a state variable: those of a state
\* that has become true, those of a state that has become false.
TrueModes == {"before", "while", "after"}
FalseModes == {"last", "unless", "first"}
\* The keys of _snapshots[st] of channel c.
SnapshotModes(c, st) == {m \in Modes : chan[c]._snapshots[st][m].k # "absent"}

\* C37 (as claimed): after any sequence of pre_state_change,
\* post_state_change and write calls the snapshot map of every state
\* variable holds modes of one polarity only, before, while and after or
\* last, unless and first, so that no subscriber filtered on a mode of the
\* other polarity is eligible.
C37_OnePolarity ==
    \A c \in Channels, st \in States :
       \/ SnapshotModes(c, st) \subseteq TrueModes
       \/ SnapshotModes(c, st) \subseteq FalseModes


\* The updates publish calls put on the queues.
PublishUpdates ==
    UNION {{queue[q][i] : i \in 1..Len(queue[q])} : q \in Queues}
\* Metadata and values are those of a read of wire type T.
ReadOfType(u, T) ==
    /\ u.metadata.k = (IF T \in native_types THEN "empty" ELSE "time")
    /\ u.values.dtype = native_type(T)

\* C38 (as claimed): the metadata and the values of every update of publish
\* are those of a read of the wire type of the specs it lists, also when a
\* subscribe filled the conversion cache while the publish was suspended in
\* queue.put; no publish pairs the values of one wire type with the
\* metadata of another, and none fails because `metadata` is not assigned.
C38_UpdateOfOneRead ==
    /\ \A u \in PublishUpdates :
          u.sub = NoneStr =>
             \A s \in u.sub_specs : ReadOfType(u, data_type_name(s))
    /\ \A t \in Tasks : task[t].result # "UnboundLocalError"


\* The write of task t has committed value v: no exception left its try
\* block and it is publishing or has ended.
Committed(t, v) ==
    /\ task[t].op = "write" /\ task[t].exc = "none"
    /\ task[t].pc \in {"put", "done"} /\ task[t].arg = v
\* Every subscribed group of channel c without sync filter holds an update
\* of its wire type carrying value v.
Delivered(c, v) ==
    \A g \in Groups :
       (g[3] = NoneStr /\ subs[c][g] # {}) =>
          \E i \in 1..Len(queue[g[1]]) :
             /\ queue[g[1]][i].sub_specs \subseteq subs[c][g]
             /\ queue[g[1]][i].values = convert_values(v, native_type(g[2]))

\* C39 (as claimed): under fair scheduling, with hooks that end and queues
\* that accept, every write that has started ends, and after a write has
\* committed a value every subscribed group without sync filter comes to
\* hold an update carrying that value.
C39_WritesEndAndDeliver ==
    /\ \A t \in Tasks : [](WriteInProgress(t) => <>(task[t].pc = "done"))
    /\ \A t \in Tasks : \A v \in {Sc(1), Sc(6)} :
          [](Committed(t, v) => <>Delivered(task[t].ch, v))


\* The callbacks the loop took, in the order it took them.
Taken == task[1].hooks
CallbackIds == 1..MaxCallbacks
\* Callback id is in the queue; the loop has taken and started it.
Queued(id) ==
    \E i \in 1..Len(queue[CallbackQueue]) : queue[CallbackQueue][i].id = id
Started(id) == \E i \in 1..Len(Taken) : Taken[i].arg.id = id
LoopEnded == task[1].pc = "done"
ShutDown == task[1].hook = "cancel"
\* The loop takes the callbacks in the order of their submission.
TakenInOrder == \A i \in 1..Len(Taken) : Taken[i].arg.id = i
\* A coroutine callback has ended before the next callback is taken, and
\* the loop is in the callback that is running.
OneAtATime ==
    \A i \in 1..Len(Taken) :
       Taken[i].ret = "running" => (i = Len(Taken) /\ task[1].pc = "callback")
\* The awaited callback ends by raising one of the exceptions of Raised and
\* the executor is not shut down in that step: the loop goes on to its next
\* async_get.
LoopSurvives(Raised) ==
    (/\ task[1].pc = "callback"
     /\ Len(Taken') = Len(Taken)
     /\ Taken'[Len(Taken)].ret \in Raised
     /\ ~ShutDown')
    => task'[1].pc = "get"

\* C40 (as claimed): the loop takes the callbacks in submission order and
\* runs coroutine callbacks one at a time, each to its end before the next
\* is taken; a callback that raises an Exception does not stop the loop;
\* every callback submitted before shutdown is in the end taken and
\* started.
C40_ExecutorServesEverySubmitted ==
    /\ [](TakenInOrder /\ OneAtATime)
    /\ [][LoopSurvives({"Exception"})]_vars
    /\ \A id \in CallbackIds : (Queued(id) /\ ~ShutDown) ~> Started(id)

\* C40 (amended): the loop takes the callbacks in submission order and
\* runs coroutine callbacks one at a time, each to its end before the next
\* is taken; a coroutine callback that raises an Exception does not stop
\* the loop.  Every callback submitted is in the end taken and started
\* provided every coroutine callback ends and the loop has not ended before
\* it takes the callback: shutdown cancels the loop whatever is still
\* queued, and asyncio.CancelledError or another BaseException raised by a
\* callback ends it too.
C40_ExecutorServesWhileLoopRuns ==
    /\ [](TakenInOrder /\ OneAtATime)
    /\ [][LoopSurvives({"Exception"})]_vars
    /\ \A id \in CallbackIds : Queued(id) ~> (Started(id) \/ LoopEnded)

\* C40 witness: three callbacks were submitted; the second, a coroutine,
\* raised an Exception, and the loop has taken the third and is running it.
C40_Witness ==
    /\ Len(Taken) = 3
    /\ Taken[2].arg.coroutine /\ Taken[2].ret = "Exception"
    /\ Taken[3].ret = "running"
    /\ ~LoopEnded

====
